---- MODULE Spec2Model ----
(***************************************************************************)
(* The asynchronous job queue of open-webui: the job table and its data    *)
(* access layer (models/jobs.py), the HTTP handlers that submit, cancel    *)
(* and retry jobs (routers/jobs.py) and the background scheduler           *)
(* (utils/job_scheduler.py), and the per-backend load tracking and backend *)
(* selection of the Ollama router (routers/ollama.py).                     *)
(*                                                                         *)
(* priority_score is a float in the code; every value it takes is a        *)
(* multiple of 0.5, so the model stores it in half units (10.0 is 20,      *)
(* 10.5 is 21).                                                            *)
(***************************************************************************)
EXTENDS Integers, Sequences, FiniteSets, TLC

VARIABLES
    jobs,        \* the job table: row i is the job whose id is i
    now,         \* int(time.time())
    runJob,      \* position of the _run_job task submit_job created for job i
    execs,       \* number of _execute_job tasks awaiting the backend, per job
    sched,       \* position of each scheduler process in its loop iteration
    claimCount,  \* per job: claim calls that returned its id since it last became queued
    archive,     \* the job_archive table, by job id
    redis,       \* request.app.state.redis: None, or the keys of the shared cache
    reply,       \* what the last call made by an observer returned
    ACTIVE_JOB_STATS,   \* in-memory active job count per backend
    PERFORMANCE_STATS,  \* in-memory response time average per backend
    HEALTH_STATUS,      \* in-memory health status per backend
    calls,       \* the send_post_request calls made so far
    environ,     \* os.environ of the server process
    tasks        \* the four background loops of utils/job_scheduler.py

vars == <<jobs, now, runJob, execs, sched, claimCount, archive, redis, reply,
          ACTIVE_JOB_STATS, PERFORMANCE_STATS, HEALTH_STATUS, calls, environ, tasks>>

(* The state of routers/ollama.py *)
backendVars == <<ACTIVE_JOB_STATS, PERFORMANCE_STATS, HEALTH_STATUS, calls>>

(* What the job queue's workers and loops never write *)
besideQueue == <<archive, reply, backendVars, environ, tasks>>

----------------------------------------------------------------------------
(* Bounds of the model *)

MaxJobs == 1
MaxQueue == 2
MaxTime == 1
MaxBumps == 1
MaxExecs == 2
MaxStarveBumps == 3
MaxCalls == 2
MaxDays == 4
MaxWorkers == 11
MaxSeconds == 242
MaxAgingBumps == 18
MaxSamples == 3
MaxStarts == 2
MaxIterations == 2

Schedulers == {"s1", "s2"}
Priorities == {9, 10}
ResultValues == {[raw |-> "resp"], [choices |-> "Hello"]}
Errors == {"boom"}
Owner == "u1"
Users == {"u1", "u2"}
Backends == {"b1", "b2"}
ResponseTimes == {1000}
Loads == {0, 5}
Latencies == {1000, 6000}

----------------------------------------------------------------------------
(* Optional values: None is Python's None / SQL NULL *)

None == <<>>
Some(v) == <<v>>

(* The JSON column type: a dict is stored as its set of key/value members  *)
(* and read back by rebuilding the dict from them.                         *)
JsonDumps(d) == {<<k, d[k]>> : k \in DOMAIN d}
JsonLoads(s) == [k \in {p[1] : p \in s} |-> (CHOOSE p \in s : p[1] = k)[2]]

(* float(priority), in half units *)
Float(p) == 2 * p

JOB_STATUS_QUEUED == "queued"
JOB_STATUS_RUNNING == "running"
JOB_STATUS_COMPLETED == "completed"
JOB_STATUS_FAILED == "failed"
JOB_STATUS_CANCELLED == "cancelled"
TERMINAL_STATUSES == {JOB_STATUS_COMPLETED, JOB_STATUS_FAILED, JOB_STATUS_CANCELLED}

STARVATION_INCREMENT == 1
MAX_CONCURRENT_JOBS == 10
DefaultMaxAttempts == 3

(* JobModel.model_validate(job): the read-only view of a row *)
JobModel(row) ==
    [id |-> row.id, user_id |-> row.user_id, status |-> row.status,
     priority |-> row.priority,
     priority_score |-> row.priority_score, backend_url |-> row.backend_url,
     result |-> IF row.result = None THEN None ELSE Some(JsonLoads(row.result[1])),
     error |-> row.error, attempt_count |-> row.attempt_count,
     max_attempts |-> row.max_attempts, created_at |-> row.created_at,
     updated_at |-> row.updated_at]

(* _to_response(job): the JobResponse body *)
ToResponse(job) ==
    [job_id |-> job.id, status |-> job.status, backend_url |-> job.backend_url,
     attempt_count |-> job.attempt_count, max_attempts |-> job.max_attempts,
     created_at |-> job.created_at, updated_at |-> job.updated_at,
     result |-> job.result, error |-> job.error]

----------------------------------------------------------------------------
(* Data access layer.  Every operation takes the table and returns the     *)
(* table after its commit (db) and its return value (ret).  A table is a   *)
(* function from the ids of its rows to the rows.                          *)

(* str(uuid.uuid4()): an id no job has had *)
uuid4 == Len(runJob) + 1

insert_new_job(db, job_id, user_id, priority, max_attempts, t) ==
    LET job == [id |-> job_id, user_id |-> user_id, status |-> JOB_STATUS_QUEUED,
                priority |-> priority, priority_score |-> Float(priority),
                backend_url |-> None, result |-> None, error |-> None,
                attempt_count |-> 0, max_attempts |-> max_attempts,
                created_at |-> t, updated_at |-> t]
    IN [db |-> [i \in DOMAIN db \cup {job_id} |-> IF i = job_id THEN job ELSE db[i]],
        ret |-> Some(JobModel(job))]

get_job_by_id(db, id) ==
    IF id \in DOMAIN db THEN Some(JobModel(db[id])) ELSE None

(* update_job_running(job_id): its one caller, _run_job, passes no         *)
(* backend_url, so the column is left as it is                             *)
update_job_running(db, id, t) ==
    IF id \notin DOMAIN db THEN [db |-> db, ret |-> None]
    ELSE LET job == [db[id] EXCEPT !.status = JOB_STATUS_RUNNING,
                                   !.attempt_count = @ + 1,
                                   !.updated_at = t]
         IN [db |-> [db EXCEPT ![id] = job], ret |-> Some(JobModel(job))]

(* Mutant: the error of an earlier attempt is not cleared *)
update_job_completed_KeepsError(db, id, result, t) ==
    IF id \notin DOMAIN db THEN [db |-> db, ret |-> None]
    ELSE LET job == [db[id] EXCEPT !.status = JOB_STATUS_COMPLETED,
                                   !.result = Some(JsonDumps(result)),
                                   !.updated_at = t]
         IN [db |-> [db EXCEPT ![id] = job], ret |-> Some(JobModel(job))]

update_job_completed(db, id, result, t) ==
    IF id \notin DOMAIN db THEN [db |-> db, ret |-> None]
    ELSE LET job == [db[id] EXCEPT !.status = JOB_STATUS_COMPLETED,
                                   !.result = Some(JsonDumps(result)),
                                   !.error = None,
                                   !.updated_at = t]
         IN [db |-> [db EXCEPT ![id] = job], ret |-> Some(JobModel(job))]

(* Mutant: requeues once more than max_attempts allows *)
update_job_failed_OffByOne(db, id, error, requeue, t) ==
    IF id \notin DOMAIN db THEN [db |-> db, ret |-> None]
    ELSE LET job == [db[id] EXCEPT
                        !.error = Some(error),
                        !.status = IF requeue /\ db[id].attempt_count <= db[id].max_attempts
                                   THEN JOB_STATUS_QUEUED
                                   ELSE JOB_STATUS_FAILED,
                        !.updated_at = t]
         IN [db |-> [db EXCEPT ![id] = job], ret |-> Some(JobModel(job))]

update_job_failed(db, id, error, requeue, t) ==
    IF id \notin DOMAIN db THEN [db |-> db, ret |-> None]
    ELSE LET job == [db[id] EXCEPT
                        !.error = Some(error),
                        !.status = IF requeue /\ db[id].attempt_count < db[id].max_attempts
                                   THEN JOB_STATUS_QUEUED
                                   ELSE JOB_STATUS_FAILED,
                        !.updated_at = t]
         IN [db |-> [db EXCEPT ![id] = job], ret |-> Some(JobModel(job))]

(* Mutant: no test for a terminal status *)
update_job_cancelled_Unchecked(db, id, t) ==
    IF id \notin DOMAIN db THEN [db |-> db, ret |-> None]
    ELSE LET job == [db[id] EXCEPT !.status = JOB_STATUS_CANCELLED,
                                   !.updated_at = t]
         IN [db |-> [db EXCEPT ![id] = job], ret |-> Some(JobModel(job))]

update_job_cancelled(db, id, t) ==
    IF id \notin DOMAIN db THEN [db |-> db, ret |-> None]
    ELSE IF db[id].status \in TERMINAL_STATUSES
         THEN [db |-> db, ret |-> Some(JobModel(db[id]))]
         ELSE LET job == [db[id] EXCEPT !.status = JOB_STATUS_CANCELLED,
                                        !.updated_at = t]
              IN [db |-> [db EXCEPT ![id] = job], ret |-> Some(JobModel(job))]

(* Mutant: the starvation bumps survive the retry *)
retry_job_KeepsScore(db, id, t) ==
    IF id \notin DOMAIN db THEN [db |-> db, ret |-> None]
    ELSE LET job == [db[id] EXCEPT !.status = JOB_STATUS_QUEUED,
                                   !.error = None,
                                   !.attempt_count = 0,
                                   !.updated_at = t]
         IN [db |-> [db EXCEPT ![id] = job], ret |-> Some(JobModel(job))]

retry_job(db, id, t) ==
    IF id \notin DOMAIN db THEN [db |-> db, ret |-> None]
    ELSE LET job == [db[id] EXCEPT !.status = JOB_STATUS_QUEUED,
                                   !.error = None,
                                   !.attempt_count = 0,
                                   !.priority_score = Float(db[id].priority),
                                   !.updated_at = t]
         IN [db |-> [db EXCEPT ![id] = job], ret |-> Some(JobModel(job))]

----------------------------------------------------------------------------
(* The claim query: status = queued ORDER BY priority_score DESC,           *)
(* created_at ASC, first row.  Rows equal in both keys come in an order the *)
(* query does not fix.                                                      *)

Queued(db) == {i \in DOMAIN db : db[i].status = JOB_STATUS_QUEUED}

(* Mutant: the order is by priority, which no bump changes *)
SortsBefore_ByPriority(a, b) ==
    \/ a.priority > b.priority
    \/ a.priority = b.priority /\ a.created_at < b.created_at

SortsBefore(a, b) ==
    \/ a.priority_score > b.priority_score
    \/ a.priority_score = b.priority_score /\ a.created_at < b.created_at

(* Mutant: ORDER BY created_at alone *)
FirstQueued_OldestFirst(db) ==
    {i \in Queued(db) : \A k \in Queued(db) : db[i].created_at <= db[k].created_at}

FirstQueued(db) ==
    {i \in Queued(db) : \A k \in Queued(db) : ~SortsBefore(db[k], db[i])}

(* The write a claim commits for the row it loaded: status, attempt_count   *)
(* (the loaded value plus one) and updated_at, keyed by the row's id.       *)
ClaimWrite(db, id, loaded_attempt_count, t) ==
    [db EXCEPT ![id] = [@ EXCEPT !.status = JOB_STATUS_RUNNING,
                                 !.attempt_count = loaded_attempt_count + 1,
                                 !.updated_at = t]]

(* Mutant: the update selects the running jobs *)
BumpWrite_Running(db) ==
    [i \in DOMAIN db |->
        IF db[i].status = JOB_STATUS_RUNNING
        THEN [db[i] EXCEPT !.priority_score = @ + STARVATION_INCREMENT]
        ELSE db[i]]

(* Mutant: the update has no WHERE clause *)
BumpWrite_AllRows(db) ==
    [i \in DOMAIN db |-> [db[i] EXCEPT !.priority_score = @ + STARVATION_INCREMENT]]

(* update(Job).where(status == queued).values(priority_score + increment)   *)
BumpWrite(db) ==
    [i \in DOMAIN db |->
        IF db[i].status = JOB_STATUS_QUEUED
        THEN [db[i] EXCEPT !.priority_score = @ + STARVATION_INCREMENT]
        ELSE db[i]]

----------------------------------------------------------------------------
(* Bookkeeping shared by the actions *)

(* claimCount after a step: a row that has just become queued (or has just  *)
(* been inserted) starts a new stay in the queue.                           *)
Stays(old, new, cc) ==
    [i \in DOMAIN new |->
        IF i \notin DOMAIN old THEN 0
        ELSE IF new[i].status = JOB_STATUS_QUEUED /\ old[i].status # JOB_STATUS_QUEUED
             THEN 0
             ELSE cc[i]]

InFlight == LET Sum[i \in 0..Len(execs)] == IF i = 0 THEN 0 ELSE Sum[i - 1] + execs[i]
            IN Sum[Len(execs)]

(* What the backend call of a worker ends with *)
Outcomes == [ok : {TRUE}, result : ResultValues, error : {"-"}]
            \cup [ok : {FALSE}, result : {[raw |-> "-"]}, error : Errors]

(* A scheduler process between iterations, or holding the row its plain    *)
(* select loaded ("selected")                                              *)
Idle == [pc |-> "idle", id |-> 0, attempt_count |-> 0]
Busy == Cardinality({s \in DOMAIN sched : sched[s].pc # "idle"})

(* The background loops start_scheduler creates.  For each: the module's   *)
(* task handle ("none" for None, "live" for a task not done, "done"), the  *)
(* number of its tasks that are running, the tasks created so far, the     *)
(* iterations made so far and those whose body raised                      *)
Loops == {"scheduler", "starvation", "archive", "snapshot"}

NoTasks == [l \in Loops |-> [handle |-> "none", live |-> 0, created |-> 0,
                              iterations |-> 0, caught |-> 0]]

InitWith(processes) ==
    /\ jobs = <<>>
    /\ now = 0
    /\ runJob = <<>>
    /\ execs = <<>>
    /\ sched = [s \in processes |-> Idle]
    /\ claimCount = <<>>
    /\ archive = <<>>
    /\ redis = None
    /\ reply = None
    /\ ACTIVE_JOB_STATS = <<>>
    /\ PERFORMANCE_STATS = <<>>
    /\ HEALTH_STATUS = <<>>
    /\ calls = <<>>
    /\ environ = <<>> /\ tasks = NoTasks

(* _invalidate_job_cache: redis.delete("job:<id>") when the cache is set up *)
JobKey(id) == <<"job", id>>

Delete(store, key) == [k \in DOMAIN store \ {key} |-> store[k]]

invalidate_job_cache(r, id) ==
    IF r = None THEN r ELSE Some(Delete(r[1], JobKey(id)))

(* One server process, hence one scheduler loop *)
Init == InitWith({"s1"})

Tick ==
    /\ now < MaxTime
    /\ now' = now + 1
    /\ UNCHANGED <<jobs, runJob, execs, sched, claimCount, redis, besideQueue>>

(* POST /jobs/chat/completions for a known model, by a user whose          *)
(* job_priority is `priority`; the model holds at most `limit` jobs        *)
submit_job(user, priority, limit) ==
    /\ Len(runJob) < limit
    /\ LET ins == insert_new_job(jobs, uuid4, user, priority, DefaultMaxAttempts, now)
       IN /\ jobs' = ins.db
          /\ claimCount' = Stays(jobs, ins.db, claimCount)
    /\ runJob' = Append(runJob, "pending")
    /\ execs' = Append(execs, 0)
    /\ UNCHANGED <<now, sched, redis, besideQueue>>

(* _run_job up to its await of generate_chat_completion *)
RunJobStart(j) ==
    /\ j \in DOMAIN jobs
    /\ runJob[j] = "pending"
    /\ LET upd == update_job_running(jobs, j, now)
       IN /\ jobs' = upd.db
          /\ claimCount' = Stays(jobs, upd.db, claimCount)
    /\ runJob' = [runJob EXCEPT ![j] = "calling"]
    /\ redis' = invalidate_job_cache(redis, j)
    /\ UNCHANGED <<now, execs, sched, besideQueue>>

(* The write a worker makes when its backend call has ended with `o` *)
WorkerWrite(db, j, o, t) ==
    IF o.ok THEN update_job_completed(db, j, o.result, t)
            ELSE update_job_failed(db, j, o.error, TRUE, t)

(* _run_job from the return of generate_chat_completion to its end *)
RunJobFinish(j, o) ==
    /\ j \in DOMAIN jobs
    /\ runJob[j] = "calling"
    /\ LET upd == WorkerWrite(jobs, j, o, now)
       IN /\ jobs' = upd.db
          /\ claimCount' = Stays(jobs, upd.db, claimCount)
    /\ runJob' = [runJob EXCEPT ![j] = "done"]
    /\ redis' = invalidate_job_cache(redis, j)
    /\ UNCHANGED <<now, execs, sched, besideQueue>>

(* _execute_job from the return of generate_chat_completion to its end *)
ExecuteJobFinish(j, o) ==
    /\ j \in DOMAIN execs
    /\ execs[j] > 0
    /\ LET upd == WorkerWrite(jobs, j, o, now)
       IN /\ jobs' = upd.db
          /\ claimCount' = Stays(jobs, upd.db, claimCount)
    /\ execs' = [execs EXCEPT ![j] = @ - 1]
    /\ UNCHANGED <<now, runJob, sched, redis, besideQueue>>

(* DELETE /jobs/{id} by the job's owner: the status code of the response *)
CancelStatus(db, j) ==
    IF get_job_by_id(db, j) = None THEN 404 ELSE 200

(* DELETE /jobs/{id}.  stop_item_tasks cancels the asyncio task registered *)
(* under the job id, the _run_job task, on a best effort: `stopped` says   *)
(* whether it did.                                                         *)
cancel_job(j, stopped) ==
    IF CancelStatus(jobs, j) = 404
    THEN UNCHANGED vars
    ELSE /\ runJob' = IF stopped /\ runJob[j] \in {"pending", "calling"}
                      THEN [runJob EXCEPT ![j] = "done"]
                      ELSE runJob
         /\ LET upd == update_job_cancelled(jobs, j, now)
            IN /\ jobs' = upd.db
               /\ claimCount' = Stays(jobs, upd.db, claimCount)
         /\ UNCHANGED <<now, execs, sched, redis, besideQueue>>

(* Mutant: the retry is not refused for a job that is not terminal *)
RetryStatus_NoConflict(db, j) ==
    IF get_job_by_id(db, j) = None THEN 404 ELSE 200

(* POST /jobs/{id}/retry by an admin: the status code of the response *)
RetryStatus(db, j) ==
    LET job == get_job_by_id(db, j)
    IN IF job = None THEN 404
       ELSE IF job[1].status \notin TERMINAL_STATUSES THEN 409
       ELSE 200

(* POST /jobs/{id}/retry *)
retry_job_route(j) ==
    IF RetryStatus(jobs, j) # 200
    THEN UNCHANGED vars
    ELSE /\ LET upd == retry_job(jobs, j, now)
            IN /\ jobs' = upd.db
               /\ claimCount' = Stays(jobs, upd.db, claimCount)
         /\ UNCHANGED <<now, runJob, execs, sched, redis, besideQueue>>

(* One pass of _starvation_loop; the model lets a job collect at most      *)
(* `limit` bumps                                                           *)
_bump_stale_jobs(limit) ==
    /\ \A i \in Queued(jobs) :
          jobs[i].priority_score - Float(jobs[i].priority) < limit * STARVATION_INCREMENT
    /\ jobs' = BumpWrite(jobs)
    /\ UNCHANGED <<now, runJob, execs, sched, claimCount, redis, besideQueue>>

Selected(j, n) == [pc |-> "selected", id |-> j, attempt_count |-> n]

(* _scheduler_loop once its claim has returned id j: start an _execute_job *)
(* task when the job's user exists, else fail the job.  The task runs up   *)
(* to its await of generate_chat_completion.                               *)
DispatchWrite(db, j, userFound, t) ==
    IF userFound THEN db
    ELSE update_job_failed(db, j, "User not found", FALSE, t).db

Dispatched(j, userFound) ==
    IF userFound THEN [execs EXCEPT ![j] = @ + 1] ELSE execs

(* One iteration of _scheduler_loop, which runs without suspending from    *)
(* its call of _claim_next_queued_job to the creation of the task.  This   *)
(* is the claim when no other caller overlaps it (one scheduler loop) or   *)
(* when the select locks the row it returns until the commit (FOR UPDATE   *)
(* SKIP LOCKED): the select and the write are one step.  The loop takes    *)
(* its semaphore and gives it back inside the iteration (the async with    *)
(* block holds no await), so the semaphore is free whenever another task   *)
(* runs; `limit` is the model's bound on the workers in flight.            *)
SchedulerIterationUpTo(limit, s, userFound) ==
    /\ sched[s].pc = "idle"
    /\ InFlight + Busy < limit
    /\ IF Queued(jobs) = {}
       THEN UNCHANGED <<jobs, execs, claimCount>>
       ELSE \E j \in FirstQueued(jobs) :
            LET claimed == ClaimWrite(jobs, j, jobs[j].attempt_count, now)
                after == DispatchWrite(claimed, j, userFound, now)
            IN /\ jobs' = after
               /\ claimCount' = [Stays(claimed, after, claimCount) EXCEPT ![j] = @ + 1]
               /\ execs' = Dispatched(j, userFound)
    /\ UNCHANGED <<now, runJob, sched, redis, besideQueue>>

(* The iteration in the model's bound on the workers in flight *)
SchedulerIteration(s, userFound) == SchedulerIterationUpTo(MaxExecs, s, userFound)

(* The claim of one of several scheduler processes on an engine where the  *)
(* select takes no lock: the plain select of _claim_next_queued_job ...    *)
ClaimSelect(s) ==
    /\ sched[s].pc = "idle"
    /\ InFlight + Busy < MaxExecs
    /\ IF Queued(jobs) = {}
       THEN UNCHANGED sched
       ELSE \E j \in FirstQueued(jobs) :
            sched' = [sched EXCEPT ![s] = Selected(j, jobs[j].attempt_count)]
    /\ UNCHANGED <<jobs, now, runJob, execs, claimCount, redis, besideQueue>>

(* ... and the commit of the loaded row's new values, followed by the rest *)
(* of the loop's iteration                                                 *)
ClaimCommit(s, userFound) ==
    /\ sched[s].pc = "selected"
    /\ LET j == sched[s].id
           claimed == ClaimWrite(jobs, j, sched[s].attempt_count, now)
           after == DispatchWrite(claimed, j, userFound, now)
       IN /\ jobs' = after
          /\ claimCount' = [Stays(jobs, after, claimCount) EXCEPT ![j] = @ + 1]
          /\ execs' = Dispatched(j, userFound)
    /\ sched' = [sched EXCEPT ![s] = Idle]
    /\ UNCHANGED <<now, runJob, redis, besideQueue>>

JobIds == 1..MaxQueue

(* One server process and one job: every handler, worker and loop *)
Next ==
    \/ Tick
    \/ \E p \in Priorities : submit_job(Owner, p, MaxJobs)
    \/ \E j \in JobIds : RunJobStart(j)
    \/ \E j \in JobIds, o \in Outcomes : RunJobFinish(j, o)
    \/ \E j \in JobIds, o \in Outcomes : ExecuteJobFinish(j, o)
    \/ \E j \in JobIds, stopped \in BOOLEAN : cancel_job(j, stopped)
    \/ \E j \in JobIds : retry_job_route(j)
    \/ _bump_stale_jobs(MaxBumps)
    \/ \E s \in DOMAIN sched, userFound \in BOOLEAN : SchedulerIteration(s, userFound)

Spec == Init /\ [][Next]_vars

(* One server process and several jobs in the queue, as the scheduler and  *)
(* the starvation loop see them: the submit-time tasks have not run yet    *)
NextQueue ==
    \/ Tick
    \/ \E p \in Priorities : submit_job(Owner, p, MaxQueue)
    \/ \E j \in JobIds, o \in Outcomes : ExecuteJobFinish(j, o)
    \/ \E j \in JobIds, stopped \in BOOLEAN : cancel_job(j, stopped)
    \/ _bump_stale_jobs(MaxBumps)
    \/ \E s \in DOMAIN sched, userFound \in BOOLEAN : SchedulerIteration(s, userFound)

SpecQueue == Init /\ [][NextQueue]_vars

(* Two server processes on one database whose engine takes no lock in the  *)
(* claim's select: each process runs its own scheduler loop                *)
InitFallback == InitWith(Schedulers)

NextFallback ==
    \/ Tick
    \/ \E p \in Priorities : submit_job(Owner, p, MaxJobs)
    \/ \E j \in JobIds : RunJobStart(j)
    \/ \E j \in JobIds, o \in Outcomes : RunJobFinish(j, o)
    \/ \E j \in JobIds, o \in Outcomes : ExecuteJobFinish(j, o)
    \/ \E j \in JobIds, stopped \in BOOLEAN : cancel_job(j, stopped)
    \/ \E j \in JobIds : retry_job_route(j)
    \/ _bump_stale_jobs(MaxBumps)
    \/ \E s \in DOMAIN sched : ClaimSelect(s)
    \/ \E s \in DOMAIN sched, userFound \in BOOLEAN : ClaimCommit(s, userFound)

SpecFallback == InitFallback /\ [][NextFallback]_vars

----------------------------------------------------------------------------
(* Load tracking of routers/ollama.py.  A dict, and the keys of the shared *)
(* cache, are functions from the keys present to their values.             *)

Get(store, key, default) == IF key \in DOMAIN store THEN store[key] ELSE default

Put(store, key, value) ==
    [k \in DOMAIN store \cup {key} |-> IF k = key THEN value ELSE store[k]]

ActiveJobsKey(base_url) == <<"active_jobs", base_url>>
ResponseTimeKey(base_url) == <<"perf_avg_response_time", base_url>>
SampleCountKey(base_url) == <<"perf_sample_count", base_url>>

(* The active job count of a backend as get_load_stats reads it *)
active_jobs(base_url) ==
    IF redis = None THEN Get(ACTIVE_JOB_STATS, base_url, 0)
    ELSE Get(redis[1], ActiveJobsKey(base_url), 0)

(* update_active_job_count without the shared cache: add, then clamp at 0 *)
update_active_job_count_memory(stats, base_url, delta) ==
    LET count == Get(stats, base_url, 0) + delta
    IN Put(stats, base_url, IF count < 0 THEN 0 ELSE count)

(* redis.incr(key, delta) and redis.decr(key, -delta) *)
redis_incr(store, key, delta) == Put(store, key, Get(store, key, 0) + delta)

(* The exponential moving average with alpha = 0.3, in milliseconds *)
MovingAverage(current_avg, response_time_ms) ==
    (3 * response_time_ms + 7 * current_avg) \div 10

(* _update_response_time_memory *)
update_response_time_memory(stats, base_url, response_time_ms) ==
    IF base_url \notin DOMAIN stats
    THEN Put(stats, base_url, [avg_response_time |-> response_time_ms, sample_count |-> 1])
    ELSE Put(stats, base_url,
             [stats[base_url] EXCEPT
                 !.avg_response_time = MovingAverage(@, response_time_ms),
                 !.sample_count = @ + 1])

(* update_response_time with the shared cache (its calls of the cache      *)
(* taken as one step)                                                      *)
update_response_time_redis(store, base_url, response_time_ms) ==
    LET count == Get(store, SampleCountKey(base_url), 0)
        new_avg == IF count = 0 THEN response_time_ms
                   ELSE MovingAverage(Get(store, ResponseTimeKey(base_url), 0),
                                      response_time_ms)
    IN redis_incr(Put(store, ResponseTimeKey(base_url), new_avg),
                  SampleCountKey(base_url), 1)

(* How a send_post_request call ends: its result is returned; the token    *)
(* statistics raise after the decrement; the backend answers with an error *)
(* status; the post raises; the task is cancelled while it awaits the post *)
Exits == {"ok", "ok_stats_error", "http_error", "exception", "cancelled"}

Ended(exit) == IF exit = "ok" THEN "returned" ELSE "raised"

(* The server starts with or without the shared cache *)
InitCounter ==
    /\ jobs = <<>> /\ now = 0 /\ runJob = <<>> /\ execs = <<>>
    /\ sched = [s \in {"s1"} |-> Idle] /\ claimCount = <<>>
    /\ archive = <<>> /\ reply = None
    /\ redis \in {None, Some(<<>>)}
    /\ ACTIVE_JOB_STATS = <<>>
    /\ PERFORMANCE_STATS = <<>>
    /\ HEALTH_STATUS = <<>>
    /\ calls = <<>>
    /\ environ = <<>> /\ tasks = NoTasks

queueVars == <<jobs, now, runJob, execs, sched, claimCount>>

(* send_post_request(url, stream=False) up to its await of session.post.   *)
(* redis_ok: the call of the shared cache does not raise.                  *)
SendPostEnter(base_url, redis_ok) ==
    /\ Len(calls) < MaxCalls
    /\ IF redis = None
       THEN /\ ACTIVE_JOB_STATS' = update_active_job_count_memory(ACTIVE_JOB_STATS, base_url, 1)
            /\ UNCHANGED redis
       ELSE /\ redis' = IF redis_ok
                        THEN Some(redis_incr(redis[1], ActiveJobsKey(base_url), 1))
                        ELSE redis
            /\ UNCHANGED ACTIVE_JOB_STATS
    /\ calls' = Append(calls, [url |-> base_url, pc |-> "posting", decremented |-> FALSE,
                               before |-> active_jobs(base_url), exit |-> "-"])
    /\ UNCHANGED <<queueVars, environ, tasks, archive, reply, PERFORMANCE_STATS, HEALTH_STATUS>>

(* The rest of decrement_counter once update_active_job_count has          *)
(* returned: the guard is set and the response time recorded; a second     *)
(* call of decrement_counter (from the except clause) finds the guard set  *)
Decremented(c, exit, response_time_ms, store) ==
    /\ calls' = [calls EXCEPT ![c] = [@ EXCEPT !.pc = Ended(exit), !.exit = exit,
                                               !.decremented = TRUE]]
    /\ IF redis = None
       THEN /\ PERFORMANCE_STATS' =
                   update_response_time_memory(PERFORMANCE_STATS, calls[c].url, response_time_ms)
            /\ UNCHANGED redis
       ELSE /\ redis' = Some(update_response_time_redis(store, calls[c].url, response_time_ms))
            /\ UNCHANGED PERFORMANCE_STATS

(* send_post_request from the end of its await of session.post: to its     *)
(* return or raise, or to the await of redis.set in the decrement          *)
SendPostRespond(c, exit, redis_ok, response_time_ms) ==
    /\ c \in DOMAIN calls
    /\ calls[c].pc = "posting"
    /\ IF exit = "cancelled"
       THEN /\ calls' = [calls EXCEPT ![c] = [@ EXCEPT !.pc = "raised", !.exit = exit]]
            /\ UNCHANGED <<redis, ACTIVE_JOB_STATS, PERFORMANCE_STATS>>
       ELSE IF redis = None
       THEN /\ ACTIVE_JOB_STATS' =
                   update_active_job_count_memory(ACTIVE_JOB_STATS, calls[c].url, -1)
            /\ Decremented(c, exit, response_time_ms, <<>>)
       ELSE LET key == ActiveJobsKey(calls[c].url)
                store == IF redis_ok THEN redis_incr(redis[1], key, -1) ELSE redis[1]
            IN /\ UNCHANGED ACTIVE_JOB_STATS
               /\ IF redis_ok /\ store[key] < 0
                  THEN /\ redis' = Some(store)
                       /\ calls' = [calls EXCEPT ![c] = [@ EXCEPT !.pc = "clamping",
                                                                  !.exit = exit]]
                       /\ UNCHANGED PERFORMANCE_STATS
                  ELSE Decremented(c, exit, response_time_ms, store)
    /\ UNCHANGED <<queueVars, environ, tasks, archive, reply, HEALTH_STATUS>>

(* update_active_job_count from the end of its await of redis.decr, which  *)
(* returned a negative value: redis.set(key, 0), then the rest of the call *)
SendPostClamp(c, redis_ok, response_time_ms) ==
    /\ c \in DOMAIN calls
    /\ calls[c].pc = "clamping"
    /\ LET store == IF redis_ok THEN Put(redis[1], ActiveJobsKey(calls[c].url), 0)
                                ELSE redis[1]
       IN Decremented(c, calls[c].exit, response_time_ms, store)
    /\ UNCHANGED <<queueVars, environ, tasks, archive, reply, ACTIVE_JOB_STATS, HEALTH_STATUS>>

NextCounter ==
    \/ \E b \in Backends, redis_ok \in BOOLEAN : SendPostEnter(b, redis_ok)
    \/ \E c \in 1..MaxCalls, exit \in Exits, redis_ok \in BOOLEAN, t \in ResponseTimes :
          SendPostRespond(c, exit, redis_ok, t)
    \/ \E c \in 1..MaxCalls, redis_ok \in BOOLEAN, t \in ResponseTimes :
          SendPostClamp(c, redis_ok, t)

SpecCounter == InitCounter /\ [][NextCounter]_vars

----------------------------------------------------------------------------
(* Backend selection of routers/ollama.py.  The indexes of OLLAMA_BASE_URLS *)
(* start at 1 here.  A score is in thousandths: W_jobs * active_jobs       *)
(* counts 1000 for a job, W_latency * ms / 1000 counts 1 for a millisecond *)

OLLAMA_BASE_URLS == <<"b1", "b2">>
OLLAMA_LB_ACTIVE_JOBS_WEIGHT == 1
OLLAMA_LB_RESPONSE_TIME_WEIGHT == 1

(* redis.set(key, data, ex=120): the time to live of a health entry *)
HEALTH_TTL == 120

HealthKey(base_url) == <<"health_status", base_url>>

(* update_health_status: to the shared cache, or to the dict when there is *)
(* none or its call raises; the result is the pair of both stores          *)
update_health_status(base_url, is_healthy, redis_ok, t) ==
    LET status == IF is_healthy THEN "healthy" ELSE "unhealthy"
        data == [status |-> status, last_check |-> t]
    IN IF redis # None /\ redis_ok
       THEN [redis |-> Some(Put(redis[1], HealthKey(base_url), data)),
             memory |-> HEALTH_STATUS]
       ELSE [redis |-> redis, memory |-> Put(HEALTH_STATUS, base_url, data)]

(* get_health_status.  With the shared cache and no entry under the key    *)
(* the function ends without a return statement: it returns None ("None")  *)
get_health_status(base_url, redis_ok) ==
    IF redis # None /\ redis_ok
    THEN IF HealthKey(base_url) \in DOMAIN redis[1]
         THEN redis[1][HealthKey(base_url)].status
         ELSE "None"
    ELSE IF base_url \in DOMAIN HEALTH_STATUS THEN HEALTH_STATUS[base_url].status
         ELSE "unknown"

(* The reads get_ollama_url makes for the candidate of index idx *)
ServerMetrics(idx, redis_ok) ==
    LET base_url == OLLAMA_BASE_URLS[idx]
    IN [idx |-> idx,
        base_url |-> base_url,
        active_jobs |-> IF redis # None /\ redis_ok
                        THEN Get(redis[1], ActiveJobsKey(base_url), 0)
                        ELSE Get(ACTIVE_JOB_STATS, base_url, 0),
        avg_response_time |->
            IF redis # None /\ redis_ok
            THEN Get(redis[1], ResponseTimeKey(base_url), 0)
            ELSE Get(Get(PERFORMANCE_STATS, base_url, <<>>), "avg_response_time", 0),
        health_status |-> get_health_status(base_url, redis_ok)]

NotUnhealthy(m) == m.health_status # "unhealthy"

(* Mutant: the unhealthy servers are not filtered out *)
HealthyMetrics_Unfiltered(server_metrics) == server_metrics

(* healthy_metrics: the servers not marked unhealthy, or all of them when   *)
(* that leaves none                                                        *)
HealthyMetrics(server_metrics) ==
    LET healthy_metrics == SelectSeq(server_metrics, NotUnhealthy)
    IN IF healthy_metrics = <<>> THEN server_metrics ELSE healthy_metrics

(* Mutant: the score counts the active jobs alone *)
Score_JobsOnly(metrics) ==
    OLLAMA_LB_ACTIVE_JOBS_WEIGHT * 1000 * metrics.active_jobs

Score(metrics) ==
    OLLAMA_LB_ACTIVE_JOBS_WEIGHT * 1000 * metrics.active_jobs
        + OLLAMA_LB_RESPONSE_TIME_WEIGHT * metrics.avg_response_time

(* The loop over healthy_metrics from position i on; min_score None is      *)
(* float('inf')                                                            *)
RECURSIVE ScanBest(_, _, _, _)
ScanBest(healthy_metrics, i, min_score, best_url_idx) ==
    IF i > Len(healthy_metrics) THEN best_url_idx
    ELSE LET score == Score(healthy_metrics[i])
         IN IF min_score = None \/ score < min_score[1]
            THEN ScanBest(healthy_metrics, i + 1, Some(score), Some(healthy_metrics[i].idx))
            ELSE ScanBest(healthy_metrics, i + 1, min_score, best_url_idx)

(* get_ollama_url(url_idx=None) for a model served by candidate_urls: the  *)
(* metrics it collects and the indexes it can return                       *)
get_ollama_url(candidate_urls, redis_ok) ==
    LET server_metrics == [i \in DOMAIN candidate_urls |->
                              ServerMetrics(candidate_urls[i], redis_ok)]
        best_url_idx == ScanBest(HealthyMetrics(server_metrics), 1, None, None)
    IN [server_metrics |-> server_metrics,
        url_idx |-> IF best_url_idx # None THEN {best_url_idx[1]}
                    ELSE {candidate_urls[i] : i \in DOMAIN candidate_urls}]

(* models[model]["urls"] of the models served by the backends *)
CandidateLists == {<<1>>, <<2>>, <<1, 2>>, <<2, 1>>}

(* What the load tracking can hold for the backends when a selection is    *)
(* made: in the dicts, or under the keys of the shared cache               *)
PerfChoices == {None} \cup {Some(t) : t \in Latencies}
HealthChoices == {None, Some("healthy"), Some("unhealthy")}

Present(choice) == {b \in Backends : choice[b] # None}

InitSelect ==
    /\ jobs = <<>> /\ now = 0 /\ runJob = <<>> /\ execs = <<>>
    /\ sched = [s \in {"s1"} |-> Idle] /\ claimCount = <<>>
    /\ archive = <<>> /\ reply = None /\ calls = <<>> /\ environ = <<>> /\ tasks = NoTasks
    /\ \E load \in [Backends -> Loads], perf \in [Backends -> PerfChoices],
          health \in [Backends -> HealthChoices], shared \in BOOLEAN :
          LET stats == [b \in Backends |-> load[b]]
              perfs == [b \in Present(perf) |->
                           [avg_response_time |-> perf[b][1], sample_count |-> 1]]
              healths == [b \in Present(health) |->
                             [status |-> health[b][1], last_check |-> 0]]
              keys == {ActiveJobsKey(b) : b \in Backends}
                         \cup {ResponseTimeKey(b) : b \in Present(perf)}
                         \cup {SampleCountKey(b) : b \in Present(perf)}
                         \cup {HealthKey(b) : b \in Present(health)}
              store == [k \in keys |->
                           IF k[1] = "active_jobs" THEN load[k[2]]
                           ELSE IF k[1] = "perf_avg_response_time" THEN perf[k[2]][1]
                           ELSE IF k[1] = "perf_sample_count" THEN 1
                           ELSE healths[k[2]]]
          IN IF shared
             THEN /\ redis = Some(store)
                  /\ ACTIVE_JOB_STATS = <<>> /\ PERFORMANCE_STATS = <<>>
                  /\ HEALTH_STATUS = <<>>
             ELSE /\ redis = None
                  /\ ACTIVE_JOB_STATS = stats /\ PERFORMANCE_STATS = perfs
                  /\ HEALTH_STATUS = healths

(* A request for a model: get_ollama_url picks its backend *)
SelectBackend(candidate_urls, redis_ok) ==
    /\ LET got == get_ollama_url(candidate_urls, redis_ok)
       IN \E idx \in got.url_idx :
             reply' = Some([candidate_urls |-> candidate_urls,
                            server_metrics |-> got.server_metrics,
                            url_idx |-> idx])
    /\ UNCHANGED <<queueVars, environ, tasks, archive, redis, backendVars>>

(* The health check of a backend has ended *)
HealthChecked(base_url, is_healthy, redis_ok) ==
    /\ LET upd == update_health_status(base_url, is_healthy, redis_ok, now)
       IN /\ redis' = upd.redis
          /\ HEALTH_STATUS' = upd.memory
    /\ UNCHANGED <<queueVars, environ, tasks, archive, reply, ACTIVE_JOB_STATS, PERFORMANCE_STATS, calls>>

(* The entry of a backend's health status in the shared cache expires *)
HealthExpired(base_url) ==
    /\ redis # None
    /\ HealthKey(base_url) \in DOMAIN redis[1]
    /\ redis' = Some(Delete(redis[1], HealthKey(base_url)))
    /\ UNCHANGED <<queueVars, environ, tasks, archive, reply, backendVars>>

NextSelect ==
    \/ \E c \in CandidateLists, redis_ok \in BOOLEAN : SelectBackend(c, redis_ok)
    \/ \E b \in Backends, is_healthy, redis_ok \in BOOLEAN :
          HealthChecked(b, is_healthy, redis_ok)
    \/ \E b \in Backends : HealthExpired(b)

SpecSelect == InitSelect /\ [][NextSelect]_vars

----------------------------------------------------------------------------
(* The archive of models/jobs.py (JobArchiveTable) and its sweep.  In the  *)
(* specification of the archive one unit of `now` is a day (86_400 s).     *)

(* older_than_days * 86_400, in units of the clock *)
Days(older_than_days) == older_than_days

(* Values of the environment variables JOB_RETENTION_DAYS and              *)
(* JOB_ARCHIVE_RETENTION_DAYS (0 disables the purge), and the arguments a  *)
(* caller hands to purge_old_archives                                      *)
RetentionDays == {1}
ArchiveRetentionDays == {0, 1}
PurgeDays == {-1, 0, 1}

(* Where a database error strikes in a call of the data access layer: not  *)
(* at all, in get_db_context, in the query, or in the commit               *)
DbFaults == {"none", "open", "query", "commit"}

(* JobArchive(id=job.id, ..., archived_at=now) *)
JobArchiveRow(job, t) ==
    [id |-> job.id, user_id |-> job.user_id, status |-> job.status,
     priority |-> job.priority, priority_score |-> job.priority_score,
     backend_url |-> job.backend_url, result |-> job.result, error |-> job.error,
     attempt_count |-> job.attempt_count, max_attempts |-> job.max_attempts,
     created_at |-> job.created_at, updated_at |-> job.updated_at,
     archived_at |-> t]

(* Mutant: the query does not filter on the status *)
OldJobs_AnyStatus(db, older_than_days, t) ==
    LET cutoff == t - Days(older_than_days)
    IN {i \in DOMAIN db : db[i].updated_at < cutoff}

(* The rows the query of archive_old_jobs returns *)
OldJobs(db, older_than_days, t) ==
    LET cutoff == t - Days(older_than_days)
    IN {i \in DOMAIN db : /\ db[i].status \in TERMINAL_STATUSES
                          /\ db[i].updated_at < cutoff}

(* Mutant: the archived jobs are not deleted from the job table *)
archive_old_jobs_KeepsRows(db, arch, older_than_days, t, fault) ==
    LET old_jobs == OldJobs(db, older_than_days, t)
    IN IF fault # "none" \/ old_jobs \cap DOMAIN arch # {}
       THEN [db |-> db, archive |-> arch, ret |-> 0]
       ELSE [db |-> db,
             archive |-> [i \in DOMAIN arch \cup old_jobs |->
                            IF i \in old_jobs THEN JobArchiveRow(db[i], t) ELSE arch[i]],
             ret |-> Cardinality(old_jobs)]

(* archive_old_jobs: the table, the archive and the return value.  The     *)
(* rows are added and deleted in one transaction; `archived` is assigned   *)
(* before db.commit(), so a commit that raises (the database fails, or the *)
(* archive already holds a row of the same primary key) leaves the tables  *)
(* as they were and the count as it was set.                               *)
archive_old_jobs(db, arch, older_than_days, t, fault) ==
    LET old_jobs == OldJobs(db, older_than_days, t)
    IN IF fault \in {"open", "query"}
       THEN [db |-> db, archive |-> arch, ret |-> 0]
       ELSE IF fault = "commit" \/ old_jobs \cap DOMAIN arch # {}
       THEN [db |-> db, archive |-> arch, ret |-> Cardinality(old_jobs)]
       ELSE [db |-> [i \in DOMAIN db \ old_jobs |-> db[i]],
             archive |-> [i \in DOMAIN arch \cup old_jobs |->
                            IF i \in old_jobs THEN JobArchiveRow(db[i], t) ELSE arch[i]],
             ret |-> Cardinality(old_jobs)]

(* The rows the delete of purge_old_archives matches *)
OldArchives(arch, older_than_days, t) ==
    LET cutoff == t - Days(older_than_days)
    IN {i \in DOMAIN arch : arch[i].archived_at < cutoff}

(* Mutant: only a negative older_than_days disables the purge *)
purge_old_archives_ZeroPurges(arch, older_than_days, t, fault) ==
    LET old == OldArchives(arch, older_than_days, t)
    IN IF older_than_days < 0 \/ fault \in {"open", "query"}
       THEN [archive |-> arch, ret |-> 0]
       ELSE IF fault = "commit"
       THEN [archive |-> arch, ret |-> Cardinality(old)]
       ELSE [archive |-> [i \in DOMAIN arch \ old |-> arch[i]],
             ret |-> Cardinality(old)]

(* purge_old_archives: the archive and the return value.  `deleted` is the *)
(* row count of the delete, assigned before db.commit().                   *)
purge_old_archives(arch, older_than_days, t, fault) ==
    LET old == OldArchives(arch, older_than_days, t)
    IN IF older_than_days <= 0 THEN [archive |-> arch, ret |-> 0]
       ELSE IF fault \in {"open", "query"} THEN [archive |-> arch, ret |-> 0]
       ELSE IF fault = "commit" THEN [archive |-> arch, ret |-> Cardinality(old)]
       ELSE [archive |-> [i \in DOMAIN arch \ old |-> arch[i]],
             ret |-> Cardinality(old)]

(* A day goes by *)
DayPasses ==
    /\ now < MaxDays
    /\ now' = now + 1
    /\ UNCHANGED <<jobs, runJob, execs, sched, claimCount, redis, besideQueue>>

(* One archive sweep: a pass of _archive_loop, or POST /jobs/archive/run   *)
(* by an admin.  Both call archive_old_jobs and then, when                 *)
(* JOB_ARCHIVE_RETENTION_DAYS > 0, purge_old_archives, without suspending  *)
(* in between.  reply holds the counts the sweep logs or returns, and the  *)
(* error archive_old_jobs logged.                                          *)
run_archive_sweep(job_retention_days, job_archive_retention_days, fault, purge_fault) ==
    LET a == archive_old_jobs(jobs, archive, job_retention_days, now, fault)
        p == IF job_archive_retention_days > 0
             THEN purge_old_archives(a.archive, job_archive_retention_days, now,
                                     purge_fault)
             ELSE [archive |-> a.archive, ret |-> 0]
    IN /\ jobs' = a.db
       /\ claimCount' = Stays(jobs, a.db, claimCount)
       /\ archive' = p.archive
       /\ reply' = Some([call |-> "run_archive_sweep", archived |-> a.ret,
                         purged |-> p.ret, fault |-> fault])
       /\ UNCHANGED <<now, runJob, execs, sched, redis, backendVars, environ, tasks>>

(* A call of JobArchives.purge_old_archives by itself; reply holds its     *)
(* argument, its return value and the error it logged                      *)
PurgeCall(older_than_days, fault) ==
    LET p == purge_old_archives(archive, older_than_days, now, fault)
    IN /\ archive' = p.archive
       /\ reply' = Some([call |-> "purge_old_archives", days |-> older_than_days,
                         purged |-> p.ret, fault |-> fault])
       /\ UNCHANGED <<queueVars, environ, tasks, redis, backendVars>>

(* One server process, its job table and its archive.  The jobs end by     *)
(* cancellation: the archive reads of a row its status and its updated_at, *)
(* which a cancellation writes as every other ending does.                 *)
NextArchive ==
    \/ DayPasses
    \/ submit_job(Owner, 10, MaxQueue)
    \/ \E j \in JobIds : cancel_job(j, TRUE)
    \/ \E j \in JobIds : retry_job_route(j)
    \/ \E d \in RetentionDays, ad \in ArchiveRetentionDays, f, pf \in DbFaults :
          run_archive_sweep(d, ad, f, pf)
    \/ \E d \in PurgeDays, f \in DbFaults : PurgeCall(d, f)

SpecArchive == Init /\ [][NextArchive]_vars

(* One server process with its scheduler and workers, and the archive      *)
(* sweep with the purge disabled; JOB_RETENTION_DAYS is 0 (every job that  *)
(* ended before today is old) or 1                                         *)
SweepRetentionDays == {0, 1}

NextSweep ==
    \/ Tick
    \/ submit_job(Owner, 10, MaxQueue)
    \/ \E j \in JobIds, o \in Outcomes : ExecuteJobFinish(j, o)
    \/ \E j \in JobIds : cancel_job(j, TRUE)
    \/ \E s \in DOMAIN sched, userFound \in BOOLEAN : SchedulerIteration(s, userFound)
    \/ \E d \in SweepRetentionDays, f \in DbFaults : run_archive_sweep(d, 0, f, "none")

SpecSweep == Init /\ [][NextSweep]_vars

----------------------------------------------------------------------------
(* The poll of routers/jobs.py (GET /jobs/{job_id}) and its cache of job   *)
(* views in the shared cache, under the key job:<id>.                      *)

(* dict.get(key): None when the dict has no such key *)
DictGet(d, key) == IF key \in DOMAIN d THEN Some(d[key]) ELSE None

(* _get_cached_job: json.loads of the value under job:<id>; None without a *)
(* cache, without the key, or when the read raises                         *)
get_cached_job(r, job_id, read_ok) ==
    IF r = None \/ ~read_ok \/ JobKey(job_id) \notin DOMAIN r[1] THEN None
    ELSE Some(JsonLoads(r[1][JobKey(job_id)]))

(* _cache_job: redis.set(job:<id>, json.dumps(job_data), ex=TTL), skipped  *)
(* without a cache and lost when the write raises                          *)
cache_job(r, job_id, job_data, write_ok) ==
    IF r = None \/ ~write_ok THEN r
    ELSE Some(Put(r[1], JobKey(job_id), JsonDumps(job_data)))

(* An HTTP response: the status code and the JSON body (None for an error) *)
Response(status_code, body) == [status_code |-> status_code, body |-> body]

(* get_job on a cache hit: the view is returned when the user_id in it is  *)
(* the caller's                                                            *)
CachedReply(cached, user_id) ==
    IF DictGet(cached, "user_id") # Some(user_id) THEN Response(403, None)
    ELSE Response(200, Some(cached))

(* The body get_job builds from the row *)
ResponseData(job, include_result) ==
    IF include_result THEN ToResponse(job)
    ELSE [ToResponse(job) EXCEPT !.result = None]

(* GET /jobs/{job_id}?include_result=... by user `user_id`; read_ok and    *)
(* write_ok say whether the cache answers the read and the write.  reply   *)
(* holds the call and its response.                                        *)
get_job(user_id, job_id, include_result, read_ok, write_ok) ==
    LET cached == get_cached_job(redis, job_id, read_ok)
        job == get_job_by_id(jobs, job_id)
        answer(response) ==
            reply' = Some([call |-> "get_job", user_id |-> user_id, job_id |-> job_id,
                           include_result |-> include_result, response |-> response])
    IN /\ IF cached # None /\ include_result
          THEN /\ answer(CachedReply(cached[1], user_id))
               /\ UNCHANGED redis
          ELSE IF job = None
          THEN /\ answer(Response(404, None))
               /\ UNCHANGED redis
          ELSE IF job[1].user_id # user_id
          THEN /\ answer(Response(403, None))
               /\ UNCHANGED redis
          ELSE LET response_data == ResponseData(job[1], include_result)
               IN /\ answer(Response(200, Some(response_data)))
                  /\ redis' = IF job[1].status \in TERMINAL_STATUSES /\ include_result
                               THEN cache_job(redis, job_id, response_data, write_ok)
                               ELSE redis
       /\ UNCHANGED <<queueVars, environ, tasks, archive, backendVars>>

(* The entry job:<id> reaches the end of its time to live (_JOB_CACHE_TTL) *)
JobCacheExpires(job_id) ==
    /\ redis # None
    /\ JobKey(job_id) \in DOMAIN redis[1]
    /\ redis' = Some(Delete(redis[1], JobKey(job_id)))
    /\ UNCHANGED <<queueVars, environ, tasks, besideQueue>>

(* A server process with or without the shared cache *)
InitPoll == InitCounter

(* One job of user Owner, run by its _run_job task, cancelled and retried, *)
(* and polled by its owner and by another user                             *)
NextPoll ==
    \/ \E p \in Priorities : submit_job(Owner, p, MaxJobs)
    \/ \E j \in JobIds : RunJobStart(j)
    \/ \E j \in JobIds, o \in Outcomes : RunJobFinish(j, o)
    \/ \E j \in JobIds, stopped \in BOOLEAN : cancel_job(j, stopped)
    \/ \E j \in JobIds : retry_job_route(j)
    \/ \E u \in Users, j \in JobIds, include_result, read_ok, write_ok \in BOOLEAN :
          get_job(u, j, include_result, read_ok, write_ok)
    \/ \E j \in JobIds : JobCacheExpires(j)

SpecPoll == InitPoll /\ [][NextPoll]_vars

----------------------------------------------------------------------------
(* The queue under load: jobs of the highest priority keep entering it (by  *)
(* submission and by the retry of jobs that have ended) while a job of a   *)
(* lower priority waits.  The scheduler loop and the starvation loop run   *)
(* again after each sleep, and a worker's backend call ends (the HTTP      *)
(* client enforces a timeout).                                             *)
NextStarve ==
    \/ \E p \in Priorities : submit_job(Owner, p, MaxQueue)
    \/ \E j \in JobIds, o \in Outcomes : ExecuteJobFinish(j, o)
    \/ \E j \in JobIds : retry_job_route(j)
    \/ _bump_stale_jobs(MaxStarveBumps)
    \/ \E s \in DOMAIN sched, userFound \in BOOLEAN : SchedulerIteration(s, userFound)

SpecStarve ==
    /\ Init
    /\ [][NextStarve]_vars
    /\ WF_vars(_bump_stale_jobs(MaxStarveBumps))
    /\ WF_vars(\E s \in DOMAIN sched, userFound \in BOOLEAN : SchedulerIteration(s, userFound))
    /\ WF_vars(\E j \in JobIds, o \in Outcomes : ExecuteJobFinish(j, o))

----------------------------------------------------------------------------
(* Retry then succeed: the backend fails the first call made for a job and *)
(* answers every later one.                                                *)

(* The backend calls made for job j that have returned: each start of a    *)
(* call (update_job_running, a claim) adds one to attempt_count, and the   *)
(* calls still awaited are the one of _run_job and those of the            *)
(* _execute_job tasks.                                                     *)
Answered(j) ==
    jobs[j].attempt_count - execs[j] - (IF runJob[j] = "calling" THEN 1 ELSE 0)

(* What the n-th call to return ends with: HTTP 500 once, then 200 *)
BackendAnswer(n) ==
    IF n = 0 THEN [ok |-> FALSE, result |-> [raw |-> "-"], error |-> "boom"]
    ELSE [ok |-> TRUE, result |-> [choices |-> "Hello"], error |-> "-"]

(* The submit handler's task, the scheduler loop and the workers; every    *)
(* user exists, nobody cancels or retries.  The tasks and the loop get     *)
(* their turn and the backend answers.                                     *)
NextRetry ==
    \/ \E p \in Priorities : submit_job(Owner, p, MaxQueue)
    \/ \E j \in JobIds : RunJobStart(j)
    \/ \E j \in DOMAIN jobs : RunJobFinish(j, BackendAnswer(Answered(j)))
    \/ \E j \in DOMAIN jobs : ExecuteJobFinish(j, BackendAnswer(Answered(j)))
    \/ \E s \in DOMAIN sched : SchedulerIteration(s, TRUE)

SpecRetry ==
    /\ Init
    /\ [][NextRetry]_vars
    /\ WF_vars(\E j \in JobIds : RunJobStart(j))
    /\ WF_vars(\E j \in DOMAIN jobs : RunJobFinish(j, BackendAnswer(Answered(j))))
    /\ WF_vars(\E j \in DOMAIN jobs : ExecuteJobFinish(j, BackendAnswer(Answered(j))))
    /\ WF_vars(\E s \in DOMAIN sched : SchedulerIteration(s, TRUE))

----------------------------------------------------------------------------
(* The workers of one scheduler loop: a job that is cancelled while its    *)
(* worker awaits the backend and then retried is claimed again, and its    *)
(* earlier workers go on.                                                  *)
NextWorkers ==
    \/ \E p \in Priorities : submit_job(Owner, p, MaxJobs)
    \/ \E j \in JobIds, o \in Outcomes : ExecuteJobFinish(j, o)
    \/ \E j \in JobIds : cancel_job(j, TRUE)
    \/ \E j \in JobIds : retry_job_route(j)
    \/ \E s \in DOMAIN sched, userFound \in BOOLEAN :
          SchedulerIterationUpTo(MaxWorkers, s, userFound)

SpecWorkers == Init /\ [][NextWorkers]_vars

----------------------------------------------------------------------------
(* The load-balancing strategy of routers/system.py *)

LB_STRATEGIES == {"least_connections", "round_robin", "fastest"}
LB_REDIS_KEY == <<"system", "lb_strategy">>

(* _LB_DEFAULT: os.environ.get("OLLAMA_LB_STRATEGY", "least_connections")  *)
(* as it was when the module was imported, the variable being unset        *)
LB_DEFAULT == Get(<<>>, "OLLAMA_LB_STRATEGY", "least_connections")

(* What a caller may send as a strategy *)
StrategyInputs == LB_STRATEGIES \cup {"random"}

(* _get_lb_strategy: the value under the key of the shared store when the  *)
(* store is set up, answers and holds one; else _LB_DEFAULT                *)
get_lb_strategy_value(r, redis_ok) ==
    IF r # None /\ redis_ok /\ LB_REDIS_KEY \in DOMAIN r[1]
    THEN r[1][LB_REDIS_KEY]
    ELSE LB_DEFAULT

(* GET /system/lb-strategy, served by process p *)
get_lb_strategy(p, redis_ok) ==
    /\ reply' = Some([call |-> "get_lb_strategy", process |-> p,
                      strategy |-> get_lb_strategy_value(redis, redis_ok),
                      source |-> IF redis # None THEN "redis" ELSE "env"])
    /\ UNCHANGED <<queueVars, archive, redis, backendVars, environ, tasks>>

(* POST /system/lb-strategy, served by process p: 422 for a strategy that  *)
(* is not known; else the strategy is written to the shared store (when    *)
(* there is one and the write does not raise) and to the os.environ of p   *)
set_lb_strategy(p, strategy, redis_ok) ==
    IF strategy \notin LB_STRATEGIES
    THEN /\ reply' = Some([call |-> "set_lb_strategy", process |-> p,
                           status_code |-> 422, strategy |-> strategy,
                           saved |-> FALSE])
         /\ UNCHANGED <<queueVars, archive, redis, backendVars, environ, tasks>>
    ELSE /\ redis' = IF redis # None /\ redis_ok
                     THEN Some(Put(redis[1], LB_REDIS_KEY, strategy))
                     ELSE redis
         /\ environ' = [environ EXCEPT ![p] = Put(@, "OLLAMA_LB_STRATEGY", strategy)]
         /\ reply' = Some([call |-> "set_lb_strategy", process |-> p,
                           status_code |-> 200, strategy |-> strategy,
                           saved |-> redis # None])
         /\ UNCHANGED <<queueVars, archive, backendVars, tasks>>

(* The server processes, each with its own os.environ, with or without    *)
(* the store they share                                                    *)
InitStrategy ==
    /\ jobs = <<>> /\ now = 0 /\ runJob = <<>> /\ execs = <<>>
    /\ sched = [s \in {"s1"} |-> Idle] /\ claimCount = <<>>
    /\ archive = <<>> /\ reply = None
    /\ redis \in {None, Some(<<>>)}
    /\ ACTIVE_JOB_STATS = <<>> /\ PERFORMANCE_STATS = <<>>
    /\ HEALTH_STATUS = <<>> /\ calls = <<>>
    /\ environ = [p \in Schedulers |-> <<>>] /\ tasks = NoTasks

NextStrategy ==
    \/ \E p \in Schedulers, redis_ok \in BOOLEAN : get_lb_strategy(p, redis_ok)
    \/ \E p \in Schedulers, strategy \in StrategyInputs, redis_ok \in BOOLEAN :
          set_lb_strategy(p, strategy, redis_ok)

SpecStrategy == InitStrategy /\ [][NextStrategy]_vars

----------------------------------------------------------------------------
(* The age of the health status.  The shared cache drops an entry when its *)
(* time to live is over; the dict keeps what was written.                  *)

(* The shared cache at time t: the health entries written HEALTH_TTL       *)
(* seconds before t or earlier are gone                                    *)
ExpireKeys(store, t) ==
    [k \in {key \in DOMAIN store :
               key[1] = "health_status" => store[key].last_check + HEALTH_TTL > t}
        |-> store[k]]

(* The seconds the clock moves at once *)
ClockSteps == {HEALTH_TTL, HEALTH_TTL + 1}

SecondsPass(d) ==
    /\ now + d <= MaxSeconds
    /\ now' = now + d
    /\ redis' = IF redis = None THEN None ELSE Some(ExpireKeys(redis[1], now + d))
    /\ UNCHANGED <<jobs, runJob, execs, sched, claimCount, besideQueue>>

(* The entry for base_url that get_health_status reads on the path it      *)
(* takes: None when there is no entry                                      *)
HealthEntry(base_url, redis_ok) ==
    IF redis # None /\ redis_ok
    THEN IF HealthKey(base_url) \in DOMAIN redis[1]
         THEN Some(redis[1][HealthKey(base_url)]) ELSE None
    ELSE IF base_url \in DOMAIN HEALTH_STATUS
         THEN Some(HEALTH_STATUS[base_url]) ELSE None

InitHealth == InitCounter

NextHealth ==
    \/ \E d \in ClockSteps : SecondsPass(d)
    \/ \E b \in Backends, is_healthy, redis_ok \in BOOLEAN :
          HealthChecked(b, is_healthy, redis_ok)

SpecHealth == InitHealth /\ [][NextHealth]_vars

----------------------------------------------------------------------------
(* Aging: a job of priority 1 waits in the queue while the starvation loop *)
(* runs, and jobs of priority 9 are submitted before and after.            *)
AgingPriorities == {1, 9}

NextAging ==
    \/ \E p \in AgingPriorities : submit_job(Owner, p, MaxQueue)
    \/ \E j \in JobIds, o \in Outcomes : ExecuteJobFinish(j, o)
    \/ _bump_stale_jobs(MaxAgingBumps)
    \/ \E s \in DOMAIN sched, userFound \in BOOLEAN : SchedulerIteration(s, userFound)

SpecAging == Init /\ [][NextAging]_vars

----------------------------------------------------------------------------
(***************************************************************************)
(* Workers whose database calls may raise                                  *)
(***************************************************************************)

(* Which database call of _execute_job raises: none; "read", the           *)
(* get_job_by_id before the try block; "completed", update_job_completed   *)
(* inside the try block (the handler then calls update_job_failed); or     *)
(* "failed", the update_job_failed inside the exception handler            *)
WorkerFaults == {"none", "read", "completed", "failed"}

(* str(exc) of the exception a database call raises *)
DbError == "OperationalError"

(* One _execute_job task runs to its end; the backend call, when reached,  *)
(* ends with `o`                                                           *)
ExecuteJobEnds(j, o, fault) ==
    \/ /\ fault = "none"
       /\ ExecuteJobFinish(j, o)
    \/ /\ fault = "completed"
       /\ o.ok
       /\ j \in DOMAIN execs
       /\ execs[j] > 0
       /\ LET upd == update_job_failed(jobs, j, DbError, TRUE, now)
          IN /\ jobs' = upd.db
             /\ claimCount' = Stays(jobs, upd.db, claimCount)
       /\ execs' = [execs EXCEPT ![j] = @ - 1]
       /\ UNCHANGED <<now, runJob, sched, redis, besideQueue>>
    \/ /\ fault \in {"read", "failed"}
       /\ j \in DOMAIN execs
       /\ execs[j] > 0
       /\ execs' = [execs EXCEPT ![j] = @ - 1]
       /\ UNCHANGED <<jobs, claimCount, now, runJob, sched, redis, besideQueue>>

NextFaults ==
    \/ Tick
    \/ \E p \in Priorities : submit_job(Owner, p, MaxQueue)
    \/ \E j \in JobIds, o \in Outcomes, fault \in WorkerFaults : ExecuteJobEnds(j, o, fault)
    \/ \E s \in DOMAIN sched, userFound \in BOOLEAN : SchedulerIteration(s, userFound)

SpecFaults == Init /\ [][NextFaults]_vars

----------------------------------------------------------------------------
(***************************************************************************)
(* Termination: the tasks and the scheduler loop get to run, every backend *)
(* call returns, and an administrator may retry a job that has ended       *)
(***************************************************************************)
NextLive ==
    \/ \E p \in Priorities : submit_job(Owner, p, MaxJobs)
    \/ \E j \in JobIds : RunJobStart(j)
    \/ \E j \in JobIds, o \in Outcomes : RunJobFinish(j, o)
    \/ \E j \in JobIds, o \in Outcomes : ExecuteJobFinish(j, o)
    \/ \E j \in JobIds : retry_job_route(j)
    \/ \E s \in DOMAIN sched, userFound \in BOOLEAN : SchedulerIteration(s, userFound)

SpecLive ==
    /\ Init
    /\ [][NextLive]_vars
    /\ WF_vars(\E j \in JobIds : RunJobStart(j))
    /\ WF_vars(\E j \in JobIds, o \in Outcomes : RunJobFinish(j, o))
    /\ WF_vars(\E j \in JobIds, o \in Outcomes : ExecuteJobFinish(j, o))
    /\ WF_vars(\E s \in DOMAIN sched, userFound \in BOOLEAN : SchedulerIteration(s, userFound))

----------------------------------------------------------------------------
(***************************************************************************)
(* send_post_request(url, stream=True)                                     *)
(***************************************************************************)

(* How the post of a streaming call fails: the backend answers with an     *)
(* error status, or the post raises                                        *)
PostFailures == {"http_error", "exception"}

(* How a started stream_wrapper ends: the backend's stream is exhausted;   *)
(* reading it raises; the client disconnects and the generator is closed   *)
(* or cancelled at its yield.  Each runs the finally block.                *)
StreamExits == {"ok", "read_error", "disconnect"}

(* The post has returned a good status: send_post_request returns a        *)
(* StreamingResponse around stream_wrapper(), a generator not yet started  *)
StreamOpen(c) ==
    /\ c \in DOMAIN calls
    /\ calls[c].pc = "posting"
    /\ calls' = [calls EXCEPT ![c] = [@ EXCEPT !.pc = "unstarted"]]
    /\ UNCHANGED <<queueVars, environ, tasks, archive, reply, redis,
                   ACTIVE_JOB_STATS, PERFORMANCE_STATS, HEALTH_STATUS>>

(* The server asks the generator for its first chunk: the body of          *)
(* stream_wrapper enters its try block                                     *)
StreamStart(c) ==
    /\ c \in DOMAIN calls
    /\ calls[c].pc = "unstarted"
    /\ calls' = [calls EXCEPT ![c] = [@ EXCEPT !.pc = "streaming"]]
    /\ UNCHANGED <<queueVars, environ, tasks, archive, reply, redis,
                   ACTIVE_JOB_STATS, PERFORMANCE_STATS, HEALTH_STATUS>>

(* The client disconnects before the first chunk is asked for: the         *)
(* response is dropped and the generator closed without having been        *)
(* started, so no statement of stream_wrapper runs, its finally block      *)
(* included                                                                *)
StreamAbandon(c) ==
    /\ c \in DOMAIN calls
    /\ calls[c].pc = "unstarted"
    /\ calls' = [calls EXCEPT ![c] = [@ EXCEPT !.pc = "closed", !.exit = "disconnect"]]
    /\ UNCHANGED <<queueVars, environ, tasks, archive, reply, redis,
                   ACTIVE_JOB_STATS, PERFORMANCE_STATS, HEALTH_STATUS>>

(* The finally block of stream_wrapper: cleanup_response, then             *)
(* decrement_counter up to the end of the call or to the await of          *)
(* redis.set in the decrement                                              *)
StreamEnd(c, exit, redis_ok, response_time_ms) ==
    /\ c \in DOMAIN calls
    /\ calls[c].pc = "streaming"
    /\ IF redis = None
       THEN /\ ACTIVE_JOB_STATS' =
                   update_active_job_count_memory(ACTIVE_JOB_STATS, calls[c].url, -1)
            /\ Decremented(c, exit, response_time_ms, <<>>)
       ELSE LET key == ActiveJobsKey(calls[c].url)
                store == IF redis_ok THEN redis_incr(redis[1], key, -1) ELSE redis[1]
            IN /\ UNCHANGED ACTIVE_JOB_STATS
               /\ IF redis_ok /\ store[key] < 0
                  THEN /\ redis' = Some(store)
                       /\ calls' = [calls EXCEPT ![c] = [@ EXCEPT !.pc = "clamping",
                                                                  !.exit = exit]]
                       /\ UNCHANGED PERFORMANCE_STATS
                  ELSE Decremented(c, exit, response_time_ms, store)
    /\ UNCHANGED <<queueVars, environ, tasks, archive, reply, HEALTH_STATUS>>

NextStream ==
    \/ \E b \in Backends, redis_ok \in BOOLEAN : SendPostEnter(b, redis_ok)
    \/ \E c \in 1..MaxCalls, exit \in PostFailures, redis_ok \in BOOLEAN, t \in ResponseTimes :
          SendPostRespond(c, exit, redis_ok, t)
    \/ \E c \in 1..MaxCalls : StreamOpen(c)
    \/ \E c \in 1..MaxCalls : StreamStart(c)
    \/ \E c \in 1..MaxCalls : StreamAbandon(c)
    \/ \E c \in 1..MaxCalls, exit \in StreamExits, redis_ok \in BOOLEAN, t \in ResponseTimes :
          StreamEnd(c, exit, redis_ok, t)
    \/ \E c \in 1..MaxCalls, redis_ok \in BOOLEAN, t \in ResponseTimes :
          SendPostClamp(c, redis_ok, t)

SpecStream == InitCounter /\ [][NextStream]_vars

----------------------------------------------------------------------------
(***************************************************************************)
(* The performance registry: latency and tokens-per-second samples         *)
(***************************************************************************)
TokensKey(base_url) == <<"perf_avg_tokens_per_second", base_url>>

(* Samples in milliseconds, and in tokens per second *)
LatencySamples == {1000, 2000}
TokenRates == {50}

(* _update_token_stats_memory: the first sample of a backend without an    *)
(* entry creates an entry that has the key avg_tokens_per_second only      *)
update_token_stats_memory(stats, base_url, tokens_per_second) ==
    IF base_url \notin DOMAIN stats
    THEN Put(stats, base_url, [avg_tokens_per_second |-> tokens_per_second])
    ELSE LET current_avg == Get(stats[base_url], "avg_tokens_per_second", 0)
             new_avg == IF current_avg = 0 THEN tokens_per_second
                        ELSE MovingAverage(current_avg, tokens_per_second)
         IN Put(stats, base_url, Put(stats[base_url], "avg_tokens_per_second", new_avg))

(* update_token_stats with the shared cache *)
update_token_stats_redis(store, base_url, tokens_per_second) ==
    LET current_avg == Get(store, TokensKey(base_url), 0)
    IN Put(store, TokensKey(base_url),
           IF current_avg = 0 THEN tokens_per_second
           ELSE MovingAverage(current_avg, tokens_per_second))

(* _update_response_time_memory raises KeyError: the backend has an entry  *)
(* and the entry has no avg_response_time                                  *)
ResponseTimeKeyError(stats, base_url) ==
    /\ base_url \in DOMAIN stats
    /\ "avg_response_time" \notin DOMAIN stats[base_url]

(* The samples recorded for a backend, in the dict and in the cache *)
Samples(base_url) ==
    Get(Get(PERFORMANCE_STATS, base_url, <<>>), "sample_count", 0)
    + (IF redis = None THEN 0 ELSE Get(redis[1], SampleCountKey(base_url), 0))

(* update_token_stats(url, eval_count, eval_duration) for a rate within    *)
(* the accepted range; redis_ok: the calls of the shared cache do not      *)
(* raise                                                                   *)
RecordTokens(base_url, tokens_per_second, redis_ok) ==
    /\ IF redis # None /\ redis_ok
       THEN /\ redis' = Some(update_token_stats_redis(redis[1], base_url, tokens_per_second))
            /\ UNCHANGED PERFORMANCE_STATS
       ELSE /\ PERFORMANCE_STATS' =
                   update_token_stats_memory(PERFORMANCE_STATS, base_url, tokens_per_second)
            /\ UNCHANGED redis
    /\ reply' = Some([call |-> "update_token_stats", base_url |-> base_url,
                      sample |-> tokens_per_second, raised |-> FALSE])
    /\ UNCHANGED <<queueVars, environ, tasks, archive, ACTIVE_JOB_STATS, HEALTH_STATUS, calls>>

(* update_response_time(url, response_time_ms); the model records at most  *)
(* MaxSamples samples for a backend                                        *)
RecordLatency(base_url, response_time_ms, redis_ok) ==
    /\ Samples(base_url) < MaxSamples
    /\ IF redis # None /\ redis_ok
       THEN /\ redis' = Some(update_response_time_redis(redis[1], base_url, response_time_ms))
            /\ UNCHANGED PERFORMANCE_STATS
            /\ reply' = Some([call |-> "update_response_time", base_url |-> base_url,
                              sample |-> response_time_ms, raised |-> FALSE])
       ELSE IF ResponseTimeKeyError(PERFORMANCE_STATS, base_url)
       THEN /\ UNCHANGED <<redis, PERFORMANCE_STATS>>
            /\ reply' = Some([call |-> "update_response_time", base_url |-> base_url,
                              sample |-> response_time_ms, raised |-> TRUE])
       ELSE /\ PERFORMANCE_STATS' =
                   update_response_time_memory(PERFORMANCE_STATS, base_url, response_time_ms)
            /\ UNCHANGED redis
            /\ reply' = Some([call |-> "update_response_time", base_url |-> base_url,
                              sample |-> response_time_ms, raised |-> FALSE])
    /\ UNCHANGED <<queueVars, environ, tasks, archive, ACTIVE_JOB_STATS, HEALTH_STATUS, calls>>

NextPerf ==
    \/ \E b \in Backends, r \in TokenRates, redis_ok \in BOOLEAN : RecordTokens(b, r, redis_ok)
    \/ \E b \in Backends, s \in LatencySamples, redis_ok \in BOOLEAN : RecordLatency(b, s, redis_ok)

SpecPerf == InitCounter /\ [][NextPerf]_vars

----------------------------------------------------------------------------
(***************************************************************************)
(* Selections under a load-balancing strategy                              *)
(***************************************************************************)

(* The selection of a request as an observer sees it: the candidates, the  *)
(* metrics read, the index returned, and the strategy that the shared      *)
(* store or the default names at that time (get_ollama_url itself reads no *)
(* strategy)                                                               *)
Selection(candidate_urls, server_metrics, idx) ==
    [candidate_urls |-> candidate_urls,
     server_metrics |-> server_metrics,
     url_idx |-> idx,
     strategy |-> get_lb_strategy_value(redis, TRUE)]

(* A request for a model served by candidate_urls: get_ollama_url picks    *)
(* its backend.  The reply keeps the selection made just before, if the    *)
(* call before this one was a selection too                                *)
RouteRequest(candidate_urls, redis_ok) ==
    /\ LET got == get_ollama_url(candidate_urls, redis_ok)
           previous == IF reply # None /\ reply[1].call = "get_ollama_url"
                       THEN Some(reply[1].selection) ELSE None
       IN \E idx \in got.url_idx :
             reply' = Some([call |-> "get_ollama_url",
                            selection |-> Selection(candidate_urls, got.server_metrics, idx),
                            previous |-> previous])
    /\ UNCHANGED <<queueVars, environ, tasks, archive, redis, backendVars>>

(* One process serves the strategy route; the calls of the shared store by *)
(* the selection and by the health check do not raise                      *)
NextRoundRobin ==
    \/ \E strategy \in LB_STRATEGIES, redis_ok \in BOOLEAN :
          set_lb_strategy("s1", strategy, redis_ok)
    \/ \E c \in CandidateLists : RouteRequest(c, TRUE)
    \/ \E b \in Backends, is_healthy \in BOOLEAN : HealthChecked(b, is_healthy, TRUE)

SpecRoundRobin == InitStrategy /\ [][NextRoundRobin]_vars

----------------------------------------------------------------------------
(***************************************************************************)
(* Workers whose backend call ends with a client error                     *)
(***************************************************************************)

(* The backend answers 4xx with an error body: send_post_request raises    *)
(* HTTPException(status_code=r.status, detail=res["error"]), and the       *)
(* worker's handler gets it as any other exception                         *)
PermanentFailures == [ok : {FALSE}, result : {[raw |-> "-"]}, error : {"400: model not found"}]

NextPermanent ==
    \/ Tick
    \/ \E p \in Priorities : submit_job(Owner, p, MaxJobs)
    \/ \E j \in JobIds : RunJobStart(j)
    \/ \E j \in JobIds, o \in Outcomes \cup PermanentFailures : RunJobFinish(j, o)
    \/ \E j \in JobIds, o \in Outcomes \cup PermanentFailures : ExecuteJobFinish(j, o)
    \/ \E j \in JobIds : retry_job_route(j)
    \/ \E s \in DOMAIN sched, userFound \in BOOLEAN : SchedulerIteration(s, userFound)

SpecPermanent == Init /\ [][NextPermanent]_vars

----------------------------------------------------------------------------
(***************************************************************************)
(* The background loops and their life cycle                               *)
(***************************************************************************)
notTasks == <<queueVars, archive, redis, reply, backendVars, environ>>

(* Mutant: an exception raised by the body of an iteration ends the loop *)
LoopIteration_Propagates(l, raised) ==
    /\ tasks[l].live > 0
    /\ tasks[l].iterations < MaxIterations
    /\ tasks' = [tasks EXCEPT ![l] =
                    IF raised
                    THEN [@ EXCEPT !.iterations = @ + 1, !.live = @ - 1, !.handle = "done"]
                    ELSE [@ EXCEPT !.iterations = @ + 1]]
    /\ UNCHANGED notTasks

(* One iteration of the loop l, abstracted from what its body does to the  *)
(* tables: the body ends, or raises an Exception, which the loop's         *)
(* "except Exception" clause logs; either way the while loop goes on       *)
LoopIteration(l, raised) ==
    /\ tasks[l].live > 0
    /\ tasks[l].iterations < MaxIterations
    /\ tasks' = [tasks EXCEPT ![l] =
                    [@ EXCEPT !.iterations = @ + 1,
                              !.caught = IF raised THEN @ + 1 ELSE @]]
    /\ UNCHANGED notTasks

(* Mutant: start_scheduler without its test of _scheduler_task *)
start_scheduler_Unguarded ==
    /\ \A l \in Loops : tasks[l].created < MaxStarts
    /\ tasks' = [l \in Loops |->
                    [tasks[l] EXCEPT !.handle = "live", !.live = @ + 1, !.created = @ + 1]]
    /\ UNCHANGED notTasks

(* start_scheduler: nothing when _scheduler_task is set and not done; else *)
(* four new tasks, whose handles replace the ones the module held          *)
start_scheduler ==
    IF tasks["scheduler"].handle = "live"
    THEN UNCHANGED vars
    ELSE /\ \A l \in Loops : tasks[l].created < MaxStarts
         /\ tasks' = [l \in Loops |->
                         [tasks[l] EXCEPT !.handle = "live", !.live = @ + 1,
                                          !.created = @ + 1]]
         /\ UNCHANGED notTasks

(* stop_scheduler: each handle that is set and not done is cancelled and   *)
(* awaited; the loop ends at its CancelledError                            *)
stop_scheduler ==
    /\ tasks' = [l \in Loops |->
                    IF tasks[l].handle = "live"
                    THEN [tasks[l] EXCEPT !.handle = "done", !.live = @ - 1]
                    ELSE tasks[l]]
    /\ UNCHANGED notTasks

NextLoops ==
    \/ start_scheduler
    \/ stop_scheduler
    \/ \E l \in Loops, raised \in BOOLEAN : LoopIteration(l, raised)

SpecLoops == Init /\ [][NextLoops]_vars

----------------------------------------------------------------------------
(* Properties *)

Terminal(j) == jobs[j].status \in TERMINAL_STATUSES

(* C1: every job has attempt_count <= max_attempts in every reachable      *)
(* state.                                                                  *)
C1_AttemptCountBounded ==
    \A j \in DOMAIN jobs : jobs[j].attempt_count <= jobs[j].max_attempts

(* C2: no two claim calls return the id of the same job during one stay of *)
(* that job in the queued state.                                           *)
C2_ClaimedOnce ==
    \A j \in DOMAIN jobs : claimCount[j] <= 1

(* C3: a step that takes a job from a terminal status to queued or running *)
(* is a step of the admin retry.                                           *)
C3_TerminalLeftOnlyByRetry ==
    [][\A j \in DOMAIN jobs :
          (Terminal(j) /\ jobs'[j].status \in {JOB_STATUS_QUEUED, JOB_STATUS_RUNNING})
              => retry_job_route(j)]_vars

(* C4: the write a worker makes at its end leaves a cancelled job          *)
(* cancelled.                                                              *)
C4_CancelledSurvivesWorker ==
    [][\A j \in DOMAIN jobs, o \in Outcomes :
          (jobs[j].status = JOB_STATUS_CANCELLED
              /\ (RunJobFinish(j, o) \/ ExecuteJobFinish(j, o)))
              => jobs'[j].status = JOB_STATUS_CANCELLED]_vars

(* C5: a claim with nothing queued changes nothing and starts no worker;   *)
(* otherwise the job it returns (the one the worker is started for) was    *)
(* queued, no queued job had a higher priority_score, none of those with   *)
(* the same score was created earlier, the job is now running with its     *)
(* attempt_count one higher, and every other job is unchanged.             *)
C5_ClaimTakesFirstQueued ==
    [][\A s \in DOMAIN sched :
          SchedulerIteration(s, TRUE) =>
              IF Queued(jobs) = {}
              THEN jobs' = jobs /\ execs' = execs
              ELSE \E j \in Queued(jobs) :
                      /\ \A k \in Queued(jobs) :
                            /\ jobs[k].priority_score <= jobs[j].priority_score
                            /\ jobs[k].priority_score = jobs[j].priority_score
                                  => jobs[j].created_at <= jobs[k].created_at
                      /\ execs'[j] = execs[j] + 1
                      /\ jobs'[j] = [jobs[j] EXCEPT
                                        !.status = JOB_STATUS_RUNNING,
                                        !.attempt_count = jobs[j].attempt_count + 1,
                                        !.updated_at = now]
                      /\ \A k \in DOMAIN jobs \ {j} : jobs'[k] = jobs[k]]_vars

(* A younger job was claimed ahead of an older one that is still waiting   *)
(* for its first claim.                                                    *)
C5_Witness ==
    /\ Len(jobs) = 2
    /\ jobs[1].status = JOB_STATUS_QUEUED /\ jobs[1].attempt_count = 0
    /\ jobs[2].status = JOB_STATUS_RUNNING /\ jobs[2].attempt_count = 1
    /\ jobs[1].created_at < jobs[2].created_at
    /\ execs[2] = 1

(* C6: update_job_failed stores the error and sets the status to queued    *)
(* exactly when requeue is true and attempt_count < max_attempts, else to  *)
(* failed.  The workers call it with requeue true, the scheduler loop with *)
(* requeue false for a job whose user is missing.                          *)
C6_FailedRequeuesWhileAttemptsRemain ==
    [][/\ \A j \in DOMAIN jobs, o \in Outcomes :
             (~o.ok /\ (RunJobFinish(j, o) \/ ExecuteJobFinish(j, o))) =>
                 /\ jobs'[j].error = Some(o.error)
                 /\ jobs[j].attempt_count < jobs[j].max_attempts
                       => jobs'[j].status = JOB_STATUS_QUEUED
                 /\ jobs[j].attempt_count >= jobs[j].max_attempts
                       => jobs'[j].status = JOB_STATUS_FAILED
       /\ \A s \in DOMAIN sched :
             (SchedulerIteration(s, FALSE) /\ Queued(jobs) # {}) =>
                 \E j \in Queued(jobs) :
                     /\ jobs'[j].attempt_count = jobs[j].attempt_count + 1
                     /\ jobs'[j].status = JOB_STATUS_FAILED
                     /\ jobs'[j].error = Some("User not found")]_vars

(* A worker's failure was not requeued because the attempts were used up *)
C6_Witness ==
    \E j \in DOMAIN jobs :
        /\ jobs[j].status = JOB_STATUS_FAILED
        /\ jobs[j].error = Some("boom")
        /\ jobs[j].attempt_count = jobs[j].max_attempts

(* C7: once a worker has stored result R for a job, get_job_by_id returns  *)
(* the job with status completed, result R and no error.                   *)
C7_CompletedRoundTrip ==
    [][\A j \in DOMAIN jobs, o \in Outcomes :
          (o.ok /\ (RunJobFinish(j, o) \/ ExecuteJobFinish(j, o))) =>
              LET got == get_job_by_id(jobs', j)
              IN /\ got # None
                 /\ got[1].status = JOB_STATUS_COMPLETED
                 /\ got[1].result = Some(o.result)
                 /\ got[1].error = None]_vars

(* A job inserted, claimed once by the scheduler, failed, claimed again    *)
(* and completed: it holds a result and its earlier error is cleared.      *)
C7_Witness ==
    \E j \in DOMAIN jobs :
        /\ jobs[j].status = JOB_STATUS_COMPLETED
        /\ jobs[j].attempt_count = 2
        /\ runJob[j] = "pending"
        /\ get_job_by_id(jobs, j)[1].result = Some([choices |-> "Hello"])

(* C8: cancelling a terminal job changes nothing and returns the job as it *)
(* is; cancelling a queued or running job makes it cancelled; cancelling   *)
(* again changes nothing more.                                             *)
C8_CancelOnlyNonTerminal ==
    [][\A j \in DOMAIN jobs, stopped \in BOOLEAN :
          cancel_job(j, stopped) =>
              LET once == update_job_cancelled(jobs, j, now)
                  twice == update_job_cancelled(jobs', j, now')
              IN /\ Terminal(j) => jobs' = jobs /\ once.ret = Some(JobModel(jobs[j]))
                 /\ ~Terminal(j) =>
                       /\ jobs'[j].status = JOB_STATUS_CANCELLED
                       /\ \A k \in DOMAIN jobs \ {j} : jobs'[k] = jobs[k]
                 /\ twice.db = jobs'
                 /\ twice.ret = Some(JobModel(jobs'[j]))]_vars

(* A running job was cancelled under its worker *)
C8_Witness ==
    \E j \in DOMAIN jobs :
        /\ jobs[j].status = JOB_STATUS_CANCELLED
        /\ jobs[j].attempt_count = 1
        /\ execs[j] = 1

(* C9: the admin retry of a queued or running job answers 409 and changes  *)
(* nothing; of a terminal job it answers 200 and leaves the job queued     *)
(* with attempt_count 0, no error and priority_score = float(priority).    *)
C9_RetryOnlyTerminal ==
    [][\A j \in DOMAIN jobs :
          retry_job_route(j) =>
              /\ ~Terminal(j) => RetryStatus(jobs, j) = 409 /\ UNCHANGED vars
              /\ Terminal(j) =>
                    /\ RetryStatus(jobs, j) = 200
                    /\ jobs'[j].status = JOB_STATUS_QUEUED
                    /\ jobs'[j].attempt_count = 0
                    /\ jobs'[j].error = None
                    /\ jobs'[j].priority_score = 2 * jobs[j].priority]_vars

(* A completed job was retried: it is queued again, with its old result *)
C9_Witness ==
    \E j \in DOMAIN jobs :
        /\ jobs[j].status = JOB_STATUS_QUEUED
        /\ jobs[j].attempt_count = 0
        /\ jobs[j].error = None
        /\ jobs[j].result # None
        /\ runJob[j] = "done"

(* C10: a starvation bump adds 0.5 to the priority_score of every queued   *)
(* job and changes no field of any other job; a job submitted with         *)
(* priority 10 has score 10.0 and, bumped once, 10.5.                      *)
C10_BumpOnlyQueued ==
    [][/\ _bump_stale_jobs(MaxBumps) =>
             \A j \in DOMAIN jobs :
                 IF jobs[j].status = JOB_STATUS_QUEUED
                 THEN /\ jobs'[j] = [jobs[j] EXCEPT !.priority_score = @ + 1]
                      /\ (jobs[j].priority = 10 /\ jobs[j].priority_score = 20)
                            => jobs'[j].priority_score = 21
                 ELSE jobs'[j] = jobs[j]
       /\ submit_job(Owner, 10, MaxQueue) => jobs'[Len(jobs')].priority_score = 20]_vars

(* A job of priority 10 bumped once, next to a job that is not queued *)
C10_Witness ==
    /\ Len(jobs) = 2
    /\ jobs[1].status = JOB_STATUS_RUNNING
    /\ jobs[2].status = JOB_STATUS_QUEUED
    /\ jobs[2].priority = 10 /\ jobs[2].priority_score = 21

(* C11: a step that leaves a job queued never lowers its priority_score,   *)
(* whichever of the bump, the claims, the workers' failures, the cancel    *)
(* and the admin retry takes the step.                                     *)
C11_ScoreNeverDropsWhileQueued ==
    [][\A j \in DOMAIN jobs :
          (jobs[j].status = JOB_STATUS_QUEUED /\ j \in DOMAIN jobs'
              /\ jobs'[j].status = JOB_STATUS_QUEUED)
              => jobs'[j].priority_score >= jobs[j].priority_score]_vars

(* A job that completed, was retried (its score reset) and has been bumped *)
(* again while it waits                                                    *)
C11_Witness ==
    \E j \in DOMAIN jobs :
        /\ jobs[j].status = JOB_STATUS_QUEUED
        /\ jobs[j].attempt_count = 0
        /\ jobs[j].result # None
        /\ jobs[j].priority_score > Float(jobs[j].priority)

C13_ActiveJobsNeverNegative ==
    \A b \in Backends : active_jobs(b) >= 0

(* C14: when the only send_post_request call made so far has returned or   *)
(* raised, it has decremented the count, and the count is what it was      *)
(* before the call.                                                        *)
C14_CounterBalanced ==
    (Len(calls) = 1 /\ calls[1].pc \in {"returned", "raised"}) =>
        /\ calls[1].decremented
        /\ active_jobs(calls[1].url) = calls[1].before

(* C15: the backend a selection returns is one of the candidates; it is    *)
(* not one the selection read as unhealthy when it read another candidate  *)
(* as not unhealthy.                                                       *)
C15_UnhealthyOnlyAsFallback ==
    reply # None =>
        LET r == reply[1]
            Chosen == {i \in DOMAIN r.server_metrics : r.server_metrics[i].idx = r.url_idx}
        IN /\ \E i \in DOMAIN r.candidate_urls : r.candidate_urls[i] = r.url_idx
           /\ (\E i \in DOMAIN r.server_metrics :
                    r.server_metrics[i].health_status # "unhealthy")
                 => \A i \in Chosen : r.server_metrics[i].health_status # "unhealthy"

(* Both candidates were read as unhealthy and one of them was returned *)
C15_Witness ==
    /\ reply # None
    /\ Len(reply[1].server_metrics) = 2
    /\ \A i \in 1..2 : reply[1].server_metrics[i].health_status = "unhealthy"
    /\ reply[1].url_idx \in {1, 2}

(* The positions of a selection's metrics that its health filter keeps,    *)
(* and the score of a position in thousandths                              *)
KeptPositions(r) ==
    LET ok == {i \in DOMAIN r.server_metrics :
                  r.server_metrics[i].health_status # "unhealthy"}
    IN IF ok = {} THEN DOMAIN r.server_metrics ELSE ok

WeightedScore(m) == 1000 * m.active_jobs + m.avg_response_time

MinimumFirst(r) ==
    \E p \in KeptPositions(r) :
        /\ r.server_metrics[p].idx = r.url_idx
        /\ \A q \in KeptPositions(r) :
              /\ WeightedScore(r.server_metrics[p]) <= WeightedScore(r.server_metrics[q])
              /\ WeightedScore(r.server_metrics[q]) = WeightedScore(r.server_metrics[p])
                    => p <= q

C17_NoIdInBothTables == DOMAIN jobs \cap DOMAIN archive = {}

(* A sweep has moved one job to the archive while another job, retried     *)
(* after it had ended, is in the job table.                                *)
C17_Witness ==
    /\ DOMAIN archive # {}
    /\ \E j \in DOMAIN jobs : /\ jobs[j].status = JOB_STATUS_QUEUED
                              /\ jobs[j].updated_at > jobs[j].created_at
    /\ reply # None
    /\ reply[1].call = "run_archive_sweep"
    /\ reply[1].archived > 0

(* C18: a call of archive_old_jobs in which a database error occurs        *)
(* (opening the session, querying or committing) returns 0 and leaves the  *)
(* job table and the archive as they were.  The call is the one of a sweep *)
(* whose purge is disabled.                                                *)
C18_ArchiveErrorReturnsZero ==
    [][\A d \in RetentionDays, f \in DbFaults \ {"none"} :
          run_archive_sweep(d, 0, f, "none") =>
             /\ reply'[1].archived = 0
             /\ jobs' = jobs
             /\ archive' = archive]_vars

(* C19: purge_old_archives with older_than_days <= 0 returns 0 and changes *)
(* nothing, whatever the state of the database; with older_than_days > 0   *)
(* and no database error it deletes the archive rows whose archived_at is  *)
(* before now - older_than_days and no other, and returns their number;    *)
(* it never changes the job table.                                         *)
C19_PurgeExact ==
    [][\A d \in PurgeDays, f \in DbFaults :
          PurgeCall(d, f) =>
             /\ jobs' = jobs
             /\ d <= 0 => /\ archive' = archive
                          /\ reply'[1].purged = 0
             /\ (d > 0 /\ f = "none") =>
                   /\ DOMAIN archive' =
                         {i \in DOMAIN archive : archive[i].archived_at >= now - Days(d)}
                   /\ \A i \in DOMAIN archive' : archive'[i] = archive[i]
                   /\ reply'[1].purged =
                         Cardinality(DOMAIN archive) - Cardinality(DOMAIN archive')]_vars

(* A purge has deleted one archive row and left a younger one *)
C19_Witness ==
    /\ reply # None
    /\ reply[1].call = "purge_old_archives"
    /\ reply[1].days > 0
    /\ reply[1].fault = "none"
    /\ reply[1].purged = 1
    /\ \E i \in DOMAIN archive : archive[i].archived_at >= now - Days(reply[1].days)

(* C20: every poll GET /jobs/{id}, with or without the cache, answers the  *)
(* owner of an existing job 200 with the view of the job, answers another  *)
(* caller 403 with no data, and answers 404 for an id that no job has.     *)
C20_PollAnswers ==
    [][\A u \in Users, j \in JobIds, include_result, read_ok, write_ok \in BOOLEAN :
          get_job(u, j, include_result, read_ok, write_ok) =>
             LET response == reply'[1].response
             IN IF j \notin DOMAIN jobs
                THEN response.status_code = 404
                ELSE IF jobs[j].user_id = u
                THEN /\ response.status_code = 200
                     /\ response.body =
                           Some(ResponseData(JobModel(jobs[j]), include_result))
                ELSE /\ response.status_code = 403
                     /\ response.body = None]_vars

(* C21: a submitted job (max_attempts 3) whose backend call fails once and *)
(* then succeeds ends, in every execution, completed with attempt_count 2. *)
C21_RetryThenSucceed ==
    <>[](\A j \in DOMAIN jobs : /\ jobs[j].status = JOB_STATUS_COMPLETED
                                /\ jobs[j].attempt_count = 2)

(* C22: at no time are more than MAX_CONCURRENT_JOBS _execute_job tasks    *)
(* executing.                                                              *)
C22_WorkersBounded == InFlight <= MAX_CONCURRENT_JOBS

(* C23: when POST /system/lb-strategy has accepted strategy S, the next    *)
(* GET /system/lb-strategy returns S, with and without a shared store.     *)
C23_StrategyReadBack ==
    [][\A p \in Schedulers, redis_ok \in BOOLEAN :
          (/\ reply # None
           /\ reply[1].call = "set_lb_strategy"
           /\ reply[1].status_code = 200
           /\ get_lb_strategy(p, redis_ok))
              => reply'[1].strategy = reply[1].strategy]_vars

(* C24: get_health_status never returns the status of an entry that        *)
(* update_health_status wrote more than 120 seconds ago, with the shared   *)
(* cache and with the dict: it reads such a backend as unknown (as None    *)
(* where the shared cache has no entry), so that no selection excludes a   *)
(* backend for a stale unhealthy mark.                                     *)
C24_StaleHealthReadsUnknown ==
    \A b \in Backends, redis_ok \in BOOLEAN :
       LET entry == HealthEntry(b, redis_ok)
       IN (entry # None /\ now - entry[1].last_check > HEALTH_TTL)
             => get_health_status(b, redis_ok) \notin {"healthy", "unhealthy"}

(* The starvation bumps a row carries in its priority_score *)
Bumps(job) == (job.priority_score - Float(job.priority)) \div STARVATION_INCREMENT

C26_SweepMovesExactlyOldTerminal ==
    [][\A d \in SweepRetentionDays :
          run_archive_sweep(d, 0, "none", "none") =>
             LET moved == {i \in DOMAIN jobs :
                              /\ Terminal(i)
                              /\ jobs[i].updated_at < now - Days(d)}
             IN /\ DOMAIN jobs' = DOMAIN jobs \ moved
                /\ \A i \in DOMAIN jobs' : jobs'[i] = jobs[i]
                /\ DOMAIN archive' = DOMAIN archive \cup moved
                /\ \A i \in DOMAIN archive : archive'[i] = archive[i]
                /\ \A i \in moved :
                      /\ archive'[i].archived_at = now
                      /\ \A field \in DOMAIN jobs[i] : archive'[i][field] = jobs[i][field]
                /\ reply'[1].archived = Cardinality(moved)
                /\ \A i \in DOMAIN archive' : archive'[i].status \in TERMINAL_STATUSES]_vars

(* A sweep has just moved a completed job, with its result, while the      *)
(* other job is running                                                    *)
C26_Witness ==
    /\ reply # None
    /\ reply[1].call = "run_archive_sweep"
    /\ reply[1].fault = "none"
    /\ reply[1].archived = 1
    /\ \E i \in DOMAIN archive : /\ archive[i].status = JOB_STATUS_COMPLETED
                                 /\ archive[i].result # None
                                 /\ archive[i].archived_at = now
    /\ \E j \in DOMAIN jobs : jobs[j].status = JOB_STATUS_RUNNING

(* C27: a step that changes a job's status to completed or failed starts   *)
(* from a state where the job is running; no worker writes completed or    *)
(* failed onto a job that is queued.  A step that also counts an attempt   *)
(* is a scheduler iteration that claimed the job (queued to running) and   *)
(* failed it for a missing user: it passed through running.                *)
C27_EndsOnlyFromRunning ==
    [][\A j \in DOMAIN jobs \cap DOMAIN jobs' :
          (/\ jobs'[j].status \in {JOB_STATUS_COMPLETED, JOB_STATUS_FAILED}
           /\ jobs'[j].status # jobs[j].status
           /\ jobs'[j].attempt_count = jobs[j].attempt_count)
             => jobs[j].status = JOB_STATUS_RUNNING]_vars

(* C28: when an _execute_job task ends, whatever its backend call returned *)
(* and whichever of its database calls raised, the job it was executing is *)
(* queued, completed, failed or cancelled, and not running.                *)
C28_WorkerEndLeavesNoRunning ==
    [][\A j \in JobIds, o \in Outcomes, fault \in WorkerFaults :
          (ExecuteJobEnds(j, o, fault) /\ j \in DOMAIN jobs')
             => jobs'[j].status # JOB_STATUS_RUNNING]_vars

(* C29: every submitted job eventually has a terminal status, and the      *)
(* number of executions started for a job since its submission or its last *)
(* admin retry (attempt_count, which the retry resets) never exceeds       *)
(* max_attempts.                                                           *)
C29_TerminatesWithinMaxAttempts ==
    /\ \A j \in JobIds : (j \in DOMAIN jobs) ~> (j \in DOMAIN jobs /\ Terminal(j))
    /\ [](\A j \in DOMAIN jobs : jobs[j].attempt_count <= jobs[j].max_attempts)

(* The response times recorded for a backend, as get_load_stats reads them *)
sample_count(base_url) ==
    IF redis = None
    THEN Get(Get(PERFORMANCE_STATS, base_url, <<>>), "sample_count", 0)
    ELSE Get(redis[1], SampleCountKey(base_url), 0)

(* C30: a streaming call whose stream has ended, by exhaustion, by a read  *)
(* error, or by a client disconnect before or after the first chunk, has   *)
(* run its decrement; when it is the only call made and the server has no  *)
(* shared cache, the count is back to what it was before the call and one  *)
(* response time is recorded.                                              *)
C30_StreamDecrementsOnce ==
    \A c \in DOMAIN calls :
        calls[c].pc \in {"returned", "raised", "closed"} =>
            /\ calls[c].decremented
            /\ (Len(calls) = 1 /\ redis = None) =>
                  /\ active_jobs(calls[c].url) = calls[c].before
                  /\ sample_count(calls[c].url) = 1

(* C31: when the server has the shared cache and the cache call of an      *)
(* active_jobs update raises, the update is applied to the process-local   *)
(* counter ACTIVE_JOB_STATS: the increment at the start of a               *)
(* send_post_request call adds 1 to it, and the decrement at its end takes *)
(* 1 from it (not below 0).                                                *)
C31_CacheFailureFallsBackToLocal ==
    [][redis # None =>
          /\ \A b \in Backends :
                SendPostEnter(b, FALSE) =>
                   Get(ACTIVE_JOB_STATS', b, 0) = Get(ACTIVE_JOB_STATS, b, 0) + 1
          /\ \A c \in DOMAIN calls, exit \in Exits \ {"cancelled"}, t \in ResponseTimes :
                SendPostRespond(c, exit, FALSE, t) =>
                   ACTIVE_JOB_STATS' =
                      update_active_job_count_memory(ACTIVE_JOB_STATS, calls[c].url, -1)]_vars

(* The average response time of a backend where the registry keeps it: in  *)
(* the shared cache when the server has one, else in the dict              *)
avg_response_time(base_url) ==
    IF redis = None
    THEN Get(Get(PERFORMANCE_STATS, base_url, <<>>), "avg_response_time", 0)
    ELSE Get(redis[1], ResponseTimeKey(base_url), 0)

(* C32: recording a latency sample s for a backend never raises; where the *)
(* registry's store works, the first sample sets the average to s with     *)
(* sample_count 1 and a later one sets it to 0.3*s + 0.7*previous and adds *)
(* 1 to sample_count, whatever was recorded for the backend before.        *)
C32_LatencyAverage ==
    [][\A b \in Backends, s \in LatencySamples, redis_ok \in BOOLEAN :
          RecordLatency(b, s, redis_ok) =>
             /\ ~reply'[1].raised
             /\ (redis = None \/ redis_ok) =>
                   /\ sample_count(b)' = sample_count(b) + 1
                   /\ avg_response_time(b)' =
                         IF sample_count(b) = 0 THEN s
                         ELSE (3 * s + 7 * avg_response_time(b)) \div 10]_vars

(* A candidate for which the selection reads no metrics: no active job, no *)
(* latency average, no health entry                                        *)
NoMetrics(m) ==
    /\ m.active_jobs = 0
    /\ m.avg_response_time = 0
    /\ m.health_status \in {"unknown", "None"}

(* C33: in a state where the selection reads no metrics for any candidate  *)
(* of a model, the indexes the selection can return are all the candidates *)
(* of the model.                                                           *)
C33_NoMetricsAnyCandidate ==
    \A c \in CandidateLists, redis_ok \in BOOLEAN :
        LET got == get_ollama_url(c, redis_ok)
        IN (\A i \in DOMAIN got.server_metrics : NoMetrics(got.server_metrics[i]))
              => got.url_idx = {c[i] : i \in DOMAIN c}

(* A selection made under round_robin for a model whose two candidates     *)
(* were both read as not unhealthy                                         *)
RoundRobinOfTwo(sel) ==
    /\ sel.strategy = "round_robin"
    /\ Len(sel.candidate_urls) = 2
    /\ \A i \in DOMAIN sel.server_metrics : NotUnhealthy(sel.server_metrics[i])

(* C34: two consecutive selections for the same model, made while the      *)
(* strategy is round_robin and both of its two candidates are healthy,     *)
(* return two distinct backends.                                           *)
C34_RoundRobinCycles ==
    (/\ reply # None
     /\ reply[1].call = "get_ollama_url"
     /\ reply[1].previous # None
     /\ reply[1].previous[1].candidate_urls = reply[1].selection.candidate_urls
     /\ RoundRobinOfTwo(reply[1].previous[1])
     /\ RoundRobinOfTwo(reply[1].selection))
        => reply[1].selection.url_idx # reply[1].previous[1].url_idx

(* C35: a job that is running, completed or failed and has been executed   *)
(* (an attempt was counted for it) has a backend_url.                      *)
C35_BackendUrlRecorded ==
    \A j \in DOMAIN jobs :
        (/\ jobs[j].status \in {JOB_STATUS_RUNNING, JOB_STATUS_COMPLETED, JOB_STATUS_FAILED}
         /\ jobs[j].attempt_count > 0)
            => jobs[j].backend_url # None

(* C36: a worker whose backend call ended with a 4xx answer carrying an    *)
(* error body leaves the job failed, not queued, whatever its              *)
(* attempt_count.                                                          *)
C36_ClientErrorNotRequeued ==
    [][\A j \in DOMAIN jobs, o \in PermanentFailures :
          (RunJobFinish(j, o) \/ ExecuteJobFinish(j, o))
             => jobs'[j].status = JOB_STATUS_FAILED]_vars

C38_OneInstancePerLoop ==
    [][/\ \A l \in Loops : tasks'[l].live <= 1
       /\ (start_scheduler /\ tasks["scheduler"].handle # "live")
             => \A l \in Loops : tasks'[l].live = 1
       /\ stop_scheduler => \A l \in Loops : tasks'[l].live = 0]_vars

(* The loops were started, stopped and started again: the second task of   *)
(* each loop is the one running                                            *)
C38_Witness ==
    \A l \in Loops : tasks[l].created = 2 /\ tasks[l].live = 1 /\ tasks[l].handle = "live"

(* The workers executing job j: its _run_job task between its start and    *)
(* its end, and its _execute_job tasks                                     *)
Workers(j) == execs[j] + (IF runJob[j] = "calling" THEN 1 ELSE 0)

(* C39: at any time at most one worker is executing a given job.           *)
C39_OneWorkerPerJob ==
    \A j \in DOMAIN jobs : Workers(j) <= 1

(* C40: a job has a result only while its status is completed; a job that  *)
(* is queued or running has none.                                          *)
C40_ResultOnlyWhenCompleted ==
    \A j \in DOMAIN jobs :
        jobs[j].result # None => jobs[j].status = JOB_STATUS_COMPLETED

====
